---- MODULE Spec2Model ----
(***************************************************************************)
(* TB Clinical Mentor RAG endpoint (api/tb-rag-query.js).                  *)
(*                                                                         *)
(* The model follows the request handler exported by the module: the       *)
(* method check, the scope / document-hint inference, the validation of    *)
(* the question, the memoized corpus load, the awaited embedding call, the *)
(* candidate filters with their fallbacks, the dual-channel ranking with   *)
(* the table boost, the merge / dedupe / truncate steps and the table      *)
(* enrichment of the results.                                              *)
(*                                                                         *)
(* Representation.                                                         *)
(*   - JavaScript strings are TLA+ strings; substring search, lower-casing,*)
(*     trimming, splitting and the regular expressions of the source are   *)
(*     computed character by character.                                    *)
(*   - A JavaScript value of a request body is a record tagged with its    *)
(*     type: [t |-> "undefined"], [t |-> "string", s |-> ...],             *)
(*     [t |-> "number", n |-> ...].                                        *)
(*   - Numbers of the request (top_k) are fixed-point with two halves per  *)
(*     unit, so that 2.5 is the integer 5.                                 *)
(*   - Embedding components are fixed-point with Unit parts per 1.0; raw   *)
(*     vectors are chosen with an integral Euclidean norm so that          *)
(*     normalize is exact.  A score is a dot product of two normalized     *)
(*     vectors, kept in parts of 1 / (Unit * Unit * 100) so that the       *)
(*     factor 0.98 of the table boost is exact as well.                    *)
(***************************************************************************)
EXTENDS Integers, Sequences, FiniteSets, TLC

(***************************************************************************)
(* Strings                                                                 *)
(***************************************************************************)

CharAt(s, i) == SubSeq(s, i, i)

\* String.prototype.includes
Includes(hay, needle) ==
  \E i \in 1..(Len(hay) - Len(needle) + 1) :
    SubSeq(hay, i, i + Len(needle) - 1) = needle

\* String.prototype.startsWith
StartsWith(s, p) == Len(p) <= Len(s) /\ SubSeq(s, 1, Len(p)) = p

UpperChars == "ABCDEFGHIJKLMNOPQRSTUVWXYZ"

LowerChars == "abcdefghijklmnopqrstuvwxyz"

DigitChars == "0123456789"

CharsOf(s) == {CharAt(s, k) : k \in 1..Len(s)}

UpperSet == CharsOf(UpperChars)

LowerSet == CharsOf(LowerChars)

DigitSet == CharsOf(DigitChars)

\* the lower-case letter of every upper-case letter
LowerOf ==
  [c \in UpperSet |->
     CharAt(LowerChars, CHOOSE k \in 1..Len(UpperChars) : CharAt(UpperChars, k) = c)]

IsDigit(c) == c \in DigitSet

IsLowerAlnum(c) == c \in LowerSet \/ c \in DigitSet

\* \w of a JavaScript regular expression
IsWordChar(c) == c \in LowerSet \/ c \in UpperSet \/ c \in DigitSet \/ c = "_"

\* \s of a JavaScript regular expression (the blanks that occur in the inputs)
IsSpace(c) == c = " "

LowerChar(c) == IF c \in UpperSet THEN LowerOf[c] ELSE c

RECURSIVE toLowerCase(_)
\* String.prototype.toLowerCase
toLowerCase(s) ==
  IF Len(s) = 0 THEN ""
  ELSE LowerChar(CharAt(s, 1)) \o toLowerCase(SubSeq(s, 2, Len(s)))

RECURSIVE trimStart(_)
trimStart(s) ==
  IF Len(s) > 0 /\ IsSpace(CharAt(s, 1)) THEN trimStart(SubSeq(s, 2, Len(s))) ELSE s

RECURSIVE trimEnd(_)
trimEnd(s) ==
  IF Len(s) > 0 /\ IsSpace(CharAt(s, Len(s))) THEN trimEnd(SubSeq(s, 1, Len(s) - 1)) ELSE s

\* String.prototype.trim
trim(s) == trimEnd(trimStart(s))

RECURSIVE MapChars(_, _, _)
\* s.replace(/<class>/g, with) for a class of single characters: every
\* maximal run of characters satisfying Drop is replaced by one copy of with
\* (the patterns of the source are all of the form X+)
MapChars(s, Drop(_), with) ==
  IF Len(s) = 0 THEN ""
  ELSE IF Drop(CharAt(s, 1))
       THEN IF Len(s) > 1 /\ Drop(CharAt(s, 2))
            THEN MapChars(SubSeq(s, 2, Len(s)), Drop, with)
            ELSE with \o MapChars(SubSeq(s, 2, Len(s)), Drop, with)
       ELSE CharAt(s, 1) \o MapChars(SubSeq(s, 2, Len(s)), Drop, with)

NotLowerAlnum(c) == ~IsLowerAlnum(c)

RECURSIVE split(_, _)
\* String.prototype.split on a one-character separator
split(s, sep) ==
  IF ~Includes(s, sep) THEN <<s>>
  ELSE LET i == CHOOSE k \in 1..Len(s) :
                  /\ CharAt(s, k) = sep
                  /\ \A j \in 1..(k - 1) : CharAt(s, j) # sep
       IN  <<SubSeq(s, 1, i - 1)>> \o split(SubSeq(s, i + 1, Len(s)), sep)

Range(f) == {f[i] : i \in DOMAIN f}

\* Body(v), a const binding: the value v is computed once and named in Body
With(v, Body(_)) == CHOOSE y \in {Body(x) : x \in {v}} : TRUE

(***************************************************************************)
(* Scope + doc_hint helpers                                                *)
(***************************************************************************)

RECURSIVE DigitRunEnd(_, _)
\* last position of the maximal run of digits that starts at position i
DigitRunEnd(s, i) ==
  IF i < Len(s) /\ IsDigit(CharAt(s, i + 1)) THEN DigitRunEnd(s, i + 1) ELSE i

RECURSIVE DottedEnds(_, _)
\* the end positions of \d+, \d+\.\d+, \d+\.\d+\.\d+, ... for a match whose
\* first run of digits ends at position e
DottedEnds(s, e) ==
  IF e + 2 <= Len(s) /\ CharAt(s, e + 1) = "." /\ IsDigit(CharAt(s, e + 2))
  THEN <<e>> \o DottedEnds(s, DigitRunEnd(s, e + 2))
  ELSE <<e>>

\* end of the match of /\b\d+(?:\.\d+)*\b/ that starts at position i, 0 if
\* there is none: the longest dotted number whose last digit is followed by
\* a non-word character or by the end of the string
NumMatchEnd(s, i) ==
  IF ~IsDigit(CharAt(s, i)) \/ (i > 1 /\ IsWordChar(CharAt(s, i - 1))) THEN 0
  ELSE LET ends == DottedEnds(s, DigitRunEnd(s, i))
           last == ends[Len(ends)]
       IN  IF last = Len(s) \/ ~IsWordChar(CharAt(s, last + 1)) THEN last
           ELSE IF Len(ends) > 1 THEN ends[Len(ends) - 1]
           ELSE 0

RECURSIVE NumMatches(_, _)
\* s.match(/\b\d+(?:\.\d+)*\b/g), scanning from position i, as a set
NumMatches(s, i) ==
  IF i > Len(s) THEN {}
  ELSE LET e == NumMatchEnd(s, i)
       IN  IF e = 0 THEN NumMatches(s, i + 1)
           ELSE {SubSeq(s, i, e)} \cup NumMatches(s, e + 1)

\* the set of section keys of a section path: the trimmed lower-cased path,
\* its non-empty "|" segments and its dotted numbers
extractSectionKeys(sectionPath) ==
  IF sectionPath = "" THEN {}
  ELSE LET s == toLowerCase(sectionPath)
           segments == {trim(seg) : seg \in Range(split(s, "|"))} \ {""}
       IN  {trim(s)} \cup segments \cup NumMatches(s, 1)

\* the token variants of a document hint
buildDocHintTokens(hint) ==
  IF hint = "" THEN {}
  ELSE LET raw == trim(toLowerCase(hint))
       IN  IF raw = "" THEN {}
           ELSE { raw,
                  MapChars(raw, IsSpace, ""),
                  MapChars(raw, IsSpace, "_"),
                  MapChars(raw, NotLowerAlnum, "") } \ {""}

(***************************************************************************)
(* JavaScript values of a request body                                     *)
(***************************************************************************)

Undefined == [t |-> "undefined"]

Str(s) == [t |-> "string", s |-> s]

\* a number, in halves: Num(5) is 2.5
Num(n) == [t |-> "number", n |-> n]

Bool(b) == [t |-> "boolean", b |-> b]

\* an array literal such as ["a"]: truthy, and not a string
Arr == [t |-> "array"]

IsString(v) == v.t = "string"

IsNumber(v) == v.t = "number"

\* ToBoolean
Truthy(v) ==
  CASE v.t = "undefined" -> FALSE
    [] v.t = "string"    -> v.s # ""
    [] v.t = "number"    -> v.n # 0
    [] v.t = "boolean"   -> v.b
    [] v.t = "array"     -> TRUE

\* the result of a call that may throw
Returned(v) == [threw |-> FALSE, value |-> v]

Threw == [threw |-> TRUE, value |-> ""]

\* (question || "").toLowerCase(): a truthy value that is not a string has
\* no toLowerCase method and the call throws a TypeError
QuestionLower(question) ==
  IF ~Truthy(question) THEN Returned("")
  ELSE IF IsString(question) THEN Returned(toLowerCase(question.s))
  ELSE Threw

keywordScore(text, keywords) == Cardinality({kw \in keywords : Includes(text, kw)})

DiagnosisKeywords ==
  { "diagnos", "algorithm", "cxr", "x-ray", "radiograph", "screen", "xpert",
    "naat", "truenat", "lamp", "wrd", "wrds", "lpa", "smear", "ultra" }

TreatmentKeywords ==
  { "treatment", "regimen", "therapy", "dosing", "dose", "4-month", "6-month",
    "bpal", "bdq", "pretomanid", "linezolid", "dr-tb", "drug-resistant" }

SafetyKeywords ==
  { "adverse", "toxicity", "monitor", "safety", "ecg", "qt", "lft", "renal",
    "hepat", "side effect", "side effects" }

PediKeywords ==
  { "child", "children", "paediatric", "pediatric", "adolescent", "infant",
    "neonate" }

ProgramKeywords ==
  { "program", "programmatic", "supply chain", "implementation",
    "health system", "adherence support", "community" }

\* the rules with the treatment rule first
ScopeOfText_TreatmentFirst(q) ==
  IF keywordScore(q, TreatmentKeywords) >= 2 THEN "treatment"
  ELSE IF \/ keywordScore(q, DiagnosisKeywords) >= 2
          \/ keywordScore(q, DiagnosisKeywords) # 0 /\ Includes(q, "module 3")
    THEN "diagnosis"
  ELSE IF keywordScore(q, PediKeywords) >= 2 THEN "pediatrics"
  ELSE IF \/ keywordScore(q, SafetyKeywords) >= 2
          \/ keywordScore(q, SafetyKeywords) # 0 /\ Includes(q, "monitor")
    THEN "drug-safety"
  ELSE IF keywordScore(q, ProgramKeywords) >= 2 THEN "programmatic"
  ELSE ""

\* the scope inferred from the lower-cased question q ("" is null)
ScopeOfText(q) ==
  LET diagnosisScore == keywordScore(q, DiagnosisKeywords)
      treatmentScore == keywordScore(q, TreatmentKeywords)
      safetyScore    == keywordScore(q, SafetyKeywords)
      pediScore      == keywordScore(q, PediKeywords)
      programScore   == keywordScore(q, ProgramKeywords)
  IN  IF diagnosisScore >= 2 \/ (diagnosisScore # 0 /\ Includes(q, "module 3"))
        THEN "diagnosis"
      ELSE IF pediScore >= 2 THEN "pediatrics"
      ELSE IF safetyScore >= 2 \/ (safetyScore # 0 /\ Includes(q, "monitor"))
        THEN "drug-safety"
      ELSE IF programScore >= 2 THEN "programmatic"
      ELSE IF treatmentScore >= 2 THEN "treatment"
      ELSE ""

inferScopeFromQuestion(question) ==
  LET q == QuestionLower(question)
  IN  IF q.threw THEN Threw
      ELSE IF q.value = "" THEN Returned("")
      ELSE Returned(ScopeOfText(q.value))

DOC_HINT_ALIASES ==
  << [ target   |-> "module3_diagnosis",
       keywords |-> {"module 3", "module3", "module iii"},
       requires |-> {"diagnos", "algorithm", "cxr"} ],
     [ target   |-> "module4_treatment",
       keywords |-> {"module 4", "module4", "module iv"},
       requires |-> {"treat", "regimen", "therapy"} ],
     [ target   |-> "consolidated_module3",
       keywords |-> {"consolidated", "module 3"},
       requires |-> {"diagnos"} ] >>

\* the alias rule at position k of DOC_HINT_ALIASES matches the text q
AliasMatches(k, q) ==
  LET alias == DOC_HINT_ALIASES[k]
  IN  /\ \E kw \in alias.keywords : Includes(q, kw)
      /\ alias.requires = {} \/ \E kw \in alias.requires : Includes(q, kw)

\* the target of the last rule that matches
DocHintOfText_LastMatch(q) ==
  IF \E k \in DOMAIN DOC_HINT_ALIASES : AliasMatches(k, q)
  THEN DOC_HINT_ALIASES[CHOOSE k \in DOMAIN DOC_HINT_ALIASES :
                          /\ AliasMatches(k, q)
                          /\ \A j \in DOMAIN DOC_HINT_ALIASES :
                               j > k => ~AliasMatches(j, q)].target
  ELSE ""

\* the document hint inferred from the lower-cased question q ("" is null)
DocHintOfText(q) ==
  IF \E k \in DOMAIN DOC_HINT_ALIASES : AliasMatches(k, q)
  THEN LET first == CHOOSE k \in DOMAIN DOC_HINT_ALIASES :
                      /\ AliasMatches(k, q)
                      /\ \A j \in 1..(k - 1) : ~AliasMatches(j, q)
       IN  DOC_HINT_ALIASES[first].target
  ELSE ""

inferDocHintFromQuestion(question) ==
  LET q == QuestionLower(question)
  IN  IF q.threw THEN Threw
      ELSE IF q.value = "" THEN Returned("")
      ELSE Returned(DocHintOfText(q.value))

(***************************************************************************)
(* Chunks                                                                  *)
(*                                                                         *)
(* A chunk record carries the fields the handler reads.  A field that is   *)
(* missing from the JSON line is the empty string: the handler reads every *)
(* field through (c.f || "") or a truthiness test, which do not tell the   *)
(* two apart.  Positions in chunks and embeddings are 1-based.             *)
(***************************************************************************)

\* chunks[i] || {}
EmptyChunk ==
  [ doc_id |-> "", chunk_id |-> "", section_path |-> "", content_type |-> "",
    scope |-> "", guideline_title |-> "", attachment_path |-> "",
    caption |-> "", text |-> "" ]

ChunkOr(chunks, i) == IF i \in DOMAIN chunks THEN chunks[i] ELSE EmptyChunk

\* the test of the scope filter for one chunk, s being the lower-cased scope
ScopeMatches(c, s) ==
  LET docId      == toLowerCase(c.doc_id)
      section    == toLowerCase(c.section_path)
      chunkScope == toLowerCase(c.scope)
  IN  IF chunkScope # "" THEN chunkScope = s
      ELSE CASE s = "diagnosis" ->
                  \/ Includes(docId, "diag")
                  \/ Includes(section, "diagnos")
                  \/ Includes(section, "xpert")
                  \/ Includes(section, "cxr")
             [] s = "treatment" ->
                  \/ Includes(docId, "treat")
                  \/ Includes(section, "treatment")
                  \/ Includes(section, "regimen")
             [] s = "drug-safety" ->
                  \/ Includes(section, "monitor")
                  \/ Includes(section, "ecg")
                  \/ Includes(section, "adverse")
                  \/ Includes(section, "safety")
             [] s = "pediatrics" ->
                  \/ Includes(docId, "pediatric")
                  \/ Includes(docId, "child")
                  \/ Includes(section, "child")
                  \/ Includes(section, "adolescent")
             [] s = "programmatic" ->
                  \/ Includes(section, "program")
                  \/ Includes(section, "implementation")
                  \/ Includes(section, "health system")
             [] OTHER -> TRUE

filterIndicesByScope(indices, chunks, scope) ==
  IF scope = "" THEN indices
  ELSE LET s == toLowerCase(scope)
           Keep(i) == ScopeMatches(ChunkOr(chunks, i), s)
       IN  SelectSeq(indices, Keep)

\* the test of the document-hint filter for one chunk
HintMatches(c, hintTokens) ==
  LET haystacks == { toLowerCase(c.doc_id), toLowerCase(c.section_path),
                     toLowerCase(c.guideline_title), toLowerCase(c.scope) }
  IN  \E hay \in haystacks :
        hay # "" /\ \E token \in hintTokens : Includes(hay, token)

filterIndicesByDocHint(indices, chunks, hint) ==
  IF hint = "" THEN indices
  ELSE LET hintTokens == buildDocHintTokens(hint)
           Keep(idx) == HintMatches(ChunkOr(chunks, idx), hintTokens)
           filtered == SelectSeq(indices, Keep)
       IN  IF hintTokens = {} THEN indices
           ELSE IF Len(filtered) # 0 THEN filtered ELSE indices

(***************************************************************************)
(* Embedding + RAG store helpers                                           *)
(***************************************************************************)

\* fixed-point parts per 1.0 of a component of a normalized vector
Unit == 5

\* fixed-point parts of a score per part of a dot product of two normalized
\* vectors: a score of 1.0 is Unit * Unit * ScoreParts
ScoreParts == 100

ISqrt(n) == CHOOSE k \in 0..n : k * k <= n /\ n < (k + 1) * (k + 1)

RECURSIVE SumSquares(_)
SumSquares(vec) ==
  IF Len(vec) = 0 THEN 0 ELSE vec[1] * vec[1] + SumSquares(Tail(vec))

normalize(vec) ==
  LET norm == ISqrt(SumSquares(vec))
  IN  IF norm = 0 THEN [i \in DOMAIN vec |-> 0]
      ELSE [i \in DOMAIN vec |-> (vec[i] * Unit) \div norm]

RECURSIVE DotPrefix(_, _, _)
DotPrefix(a, b, len) ==
  IF len = 0 THEN 0 ELSE a[len] * b[len] + DotPrefix(a, b, len - 1)

\* For normalized vectors, cosine similarity is just their dot product,
\* taken over the common prefix of the two vectors.
cosineSim(a, b) ==
  LET len == IF Len(a) <= Len(b) THEN Len(a) ELSE Len(b)
  IN  DotPrefix(a, b, len) * ScoreParts

(***************************************************************************)
(* Ranking                                                                 *)
(***************************************************************************)

RECURSIVE InsertByScore(_, _)
\* entry e put into the list sorted by non-increasing score, behind the
\* entries of the same score (Array.prototype.sort is stable)
InsertByScore(sorted, e) ==
  IF Len(sorted) = 0 THEN <<e>>
  ELSE IF sorted[1].score >= e.score
       THEN <<sorted[1]>> \o InsertByScore(Tail(sorted), e)
       ELSE <<e>> \o sorted

RECURSIVE SortFrom(_, _, _)
SortFrom(entries, k, sorted) ==
  IF k > Len(entries) THEN sorted
  ELSE SortFrom(entries, k + 1, InsertByScore(sorted, entries[k]))

\* entries.sort((a, b) => b.score - a.score)
SortByScore(entries) == SortFrom(entries, 1, <<>>)

\* entries.slice(0, n)
Slice(entries, n) ==
  SubSeq(entries, 1, IF n <= Len(entries) THEN n ELSE Len(entries))

IsTable(c) == toLowerCase(c.content_type) = "table"

\* indices.map((idx) => ({ index: idx, score: cosineSim(q, embeddings[idx]) }))
ScoreIndices(indices, qEmbedding, embeddings) ==
  [k \in DOMAIN indices |->
     [index |-> indices[k], score |-> cosineSim(qEmbedding, embeddings[indices[k]])]]

TEXT_LIMIT == 10

TABLE_LIMIT == 5

\* the number of top prose entries used as anchors
ANCHOR_LIMIT == 10

\* the top prose entries that carry a doc_id, with their section keys
Anchors(scoredText, chunks) ==
  LET anchorCount == IF ANCHOR_LIMIT <= Len(scoredText) THEN ANCHOR_LIMIT
                     ELSE Len(scoredText)
      anchors == [k \in 1..anchorCount |->
                    LET c == ChunkOr(chunks, scoredText[k].index)
                    IN  [ index |-> scoredText[k].index,
                          score |-> scoredText[k].score,
                          doc_id |-> c.doc_id,
                          sectionKeys |-> extractSectionKeys(c.section_path) ]]
      HasDoc(a) == a.doc_id # ""
  IN  SelectSeq(anchors, HasDoc)

\* the table chunk c shares its doc_id and a section key with an anchor
IsNeighbor(c, anchorDocSectionMap) ==
  LET tableKeys == extractSectionKeys(c.section_path)
  IN  /\ c.doc_id # ""
      /\ \E k \in DOMAIN anchorDocSectionMap :
           /\ anchorDocSectionMap[k].doc_id = c.doc_id
           /\ anchorDocSectionMap[k].sectionKeys \cap tableKeys # {}

\* the boost with a factor of 0.89
BoostFloor_Low(maxTextScore) == (maxTextScore * 89) \div 100

\* maxTextScore * 0.98
BoostFloor(maxTextScore) == (maxTextScore * 98) \div 100

Max(a, b) == IF a >= b THEN a ELSE b

Min(a, b) == IF a <= b THEN a ELSE b

\* the boost loop over the scored table entries
BoostTables(scoredTables, scoredText, chunks) ==
  LET anchorDocSectionMap == Anchors(scoredText, chunks)
      maxTextScore == IF Len(scoredText) # 0 THEN scoredText[1].score
                      ELSE Unit * Unit * ScoreParts
  IN  [k \in DOMAIN scoredTables |->
         IF IsNeighbor(ChunkOr(chunks, scoredTables[k].index), anchorDocSectionMap)
         THEN [ scoredTables[k] EXCEPT
                  !.score = Max(scoredTables[k].score, BoostFloor(maxTextScore)) ]
         ELSE scoredTables[k]]

RECURSIVE DedupeFrom(_, _, _, _)
\* the dedupe loop: entries without a chunk_id and entries whose chunk_id
\* was seen before are skipped
DedupeFrom(combined, k, seen, chunks) ==
  IF k > Len(combined) THEN <<>>
  ELSE LET id == ChunkOr(chunks, combined[k].index).chunk_id
       IN  IF id = "" \/ id \in seen
           THEN DedupeFrom(combined, k + 1, seen, chunks)
           ELSE <<combined[k]>> \o DedupeFrom(combined, k + 1, seen \cup {id}, chunks)

\* the dedupe loop without the set of seen chunk_ids
Dedupe_NoSeen(combined, chunks) ==
  LET HasId(e) == ChunkOr(chunks, e.index).chunk_id # ""
  IN  SelectSeq(combined, HasId)

RECURSIVE DedupeFrom_KeepNoId(_, _, _, _)
\* a dedupe loop that skips only the entries whose chunk_id was seen before
DedupeFrom_KeepNoId(combined, k, seen, chunks) ==
  IF k > Len(combined) THEN <<>>
  ELSE LET id == ChunkOr(chunks, combined[k].index).chunk_id
       IN  IF id # "" /\ id \in seen
           THEN DedupeFrom_KeepNoId(combined, k + 1, seen, chunks)
           ELSE <<combined[k]>>
                  \o DedupeFrom_KeepNoId(combined, k + 1, seen \cup {id}, chunks)

Dedupe_KeepNoId(combined, chunks) == DedupeFrom_KeepNoId(combined, 1, {}, chunks)

Dedupe(combined, chunks) == DedupeFrom(combined, 1, {}, chunks)

\* the scope filter without its fallback
ScopedIndices_NoFallback(store, scope) ==
  filterIndicesByScope([i \in DOMAIN store.embeddings |-> i], store.chunks, scope)

\* the candidate indices after the scope filter and its fallback
ScopedIndices(store, scope) ==
  LET fullIndices == [i \in DOMAIN store.embeddings |-> i]
      scopedIndices == filterIndicesByScope(fullIndices, store.chunks, scope)
  IN  IF Len(scopedIndices) = 0 THEN fullIndices ELSE scopedIndices

\* the candidate indices after both filters and their fallbacks
CandidateIndices(store, scope, documentHint) ==
  LET scopedIndices == ScopedIndices(store, scope)
      indices == filterIndicesByDocHint(scopedIndices, store.chunks, documentHint)
  IN  IF Len(indices) = 0 THEN scopedIndices ELSE indices

\* chunks[i].content_type is read for every candidate: the read throws a
\* TypeError for an index that has an embedding and no chunk
PartitionThrows(store, indices) ==
  \E k \in DOMAIN indices : indices[k] \notin DOMAIN store.chunks

\* the scored prose channel
ScoredText(store, indices, qEmbedding) ==
  LET IsText(i) == ~IsTable(store.chunks[i])
  IN  SortByScore(ScoreIndices(SelectSeq(indices, IsText), qEmbedding, store.embeddings))

\* the scored table channel after the boost and the second sort
BoostedTables(store, indices, qEmbedding, scoredText) ==
  LET IsTab(i) == IsTable(store.chunks[i])
      scoredTables == SortByScore(
                        ScoreIndices(SelectSeq(indices, IsTab), qEmbedding, store.embeddings))
  IN  SortByScore(BoostTables(scoredTables, scoredText, store.chunks))

\* the two channels concatenated and left in channel order
Combined_Unsorted(topText, topTables) == topText \o topTables

\* topText.concat(topTables), sorted
Combined(topText, topTables) == SortByScore(topText \o topTables)

\* a merge that takes the whole table channel
Deduped_NoTableLimit(store, indices, qEmbedding) ==
  LET scoredText == ScoredText(store, indices, qEmbedding)
      topText == Slice(scoredText, TEXT_LIMIT)
      topTables == BoostedTables(store, indices, qEmbedding, scoredText)
  IN  Dedupe(Combined(topText, topTables), store.chunks)

\* the merged, sorted and deduplicated entries
Deduped(store, indices, qEmbedding) ==
  LET scoredText == ScoredText(store, indices, qEmbedding)
      topText == Slice(scoredText, TEXT_LIMIT)
      topTables == Slice(BoostedTables(store, indices, qEmbedding, scoredText), TABLE_LIMIT)
  IN  Dedupe(Combined(topText, topTables), store.chunks)

(***************************************************************************)
(* Table loading + normalization + subtype detection + rendering           *)
(*                                                                         *)
(* A raw row and a logical row are JavaScript objects with string values:  *)
(* a sequence of <<key, value>> pairs in insertion order, without          *)
(* duplicate keys.                                                         *)
(***************************************************************************)

Null == [t |-> "null"]

Keys(obj) == [k \in DOMAIN obj |-> obj[k][1]]

Has(obj, key) == \E k \in DOMAIN obj : obj[k][1] = key

\* obj[key] of a present key
Get(obj, key) == obj[CHOOSE k \in DOMAIN obj : obj[k][1] = key][2]

\* obj[key] || "" and obj[key] ?? "" for string values
GetOr(obj, key) == IF Has(obj, key) THEN Get(obj, key) ELSE ""

\* obj[key] = val
Put(obj, key, val) ==
  IF Has(obj, key)
  THEN [k \in DOMAIN obj |-> IF obj[k][1] = key THEN <<key, val>> ELSE obj[k]]
  ELSE Append(obj, <<key, val>>)

RECURSIVE ReplaceAll(_, _, _)
\* s.replace(/<from>/g, to) for a literal from
ReplaceAll(s, from, to) ==
  IF Len(s) = 0 THEN ""
  ELSE IF StartsWith(s, from)
       THEN to \o ReplaceAll(SubSeq(s, Len(from) + 1, Len(s)), from, to)
       ELSE CharAt(s, 1) \o ReplaceAll(SubSeq(s, 2, Len(s)), from, to)

RECURSIVE StripSlashes(_)
StripSlashes(s) == IF StartsWith(s, "/") THEN StripSlashes(SubSeq(s, 2, Len(s))) ELSE s

\* the path of the CSV file below the working directory, "" for null
resolveTablePath(attachmentPathFromMeta) ==
  IF attachmentPathFromMeta = "" THEN ""
  ELSE LET slashed == ReplaceAll(ReplaceAll(attachmentPathFromMeta, "\\\\", "/"), "\\", "/")
           noDot == IF StartsWith(slashed, "./")
                    THEN StripSlashes(SubSeq(slashed, 2, Len(slashed)))
                    ELSE slashed
           cleaned == IF StartsWith(noDot, "../") THEN SubSeq(noDot, 4, Len(noDot))
                      ELSE noDot
       IN  IF StartsWith(cleaned, "public/") THEN cleaned ELSE "public/" \o cleaned

\* a read that yields no rows where the file cannot be read
loadTableRows_Swallow(tables, attachmentPathFromMeta) ==
  LET absPath == resolveTablePath(attachmentPathFromMeta)
  IN  IF absPath \in DOMAIN tables /\ tables[absPath].readable
      THEN Returned(tables[absPath].rows)
      ELSE Returned(<<>>)

\* the rows of the CSV file of an attachment; the call throws when the file
\* cannot be read
loadTableRows(tables, attachmentPathFromMeta) ==
  LET absPath == resolveTablePath(attachmentPathFromMeta)
  IN  IF absPath = "" THEN Threw
      ELSE IF absPath \notin DOMAIN tables THEN Threw
      ELSE IF ~tables[absPath].readable THEN Threw
      ELSE Returned(tables[absPath].rows)

\* String(r.row_index)
RowIndexString(r) == IF Has(r, "row_index") THEN Get(r, "row_index") ELSE "undefined"

EndsWith(s, p) == Len(p) <= Len(s) /\ SubSeq(s, Len(s) - Len(p) + 1, Len(s)) = p

\* /^columna|columnb|...|columny|columnz$/.test(lower): the anchors bind to
\* the first and to the last alternative only
IsContentColumnName(lower) ==
  \/ StartsWith(lower, "columna")
  \/ \E k \in 2..25 : Includes(lower, "column" \o CharAt(LowerChars, k))
  \/ EndsWith(lower, "columnz")

\* rawRows.find((r) => String(r.row_index) === "1") || rawRows[0]
HeaderRowOf(rawRows) ==
  IF \E k \in DOMAIN rawRows : RowIndexString(rawRows[k]) = "1"
  THEN rawRows[CHOOSE k \in DOMAIN rawRows :
                 /\ RowIndexString(rawRows[k]) = "1"
                 /\ \A j \in 1..(k - 1) : RowIndexString(rawRows[j]) # "1"]
  ELSE rawRows[1]

RECURSIVE LogicalFrom(_, _, _, _)
\* the loop over contentCols that fills one logical row
LogicalFrom(row, headerRow, contentCols, k) ==
  IF k = 0 THEN <<>>
  ELSE LET col == contentCols[k]
           headerLabel == trim(Get(headerRow, col))
           sofar == LogicalFrom(row, headerRow, contentCols, k - 1)
       IN  IF headerLabel = "" THEN sofar
           ELSE Put(sofar, headerLabel, GetOr(row, col))

normalizeTableRows(rawRows) ==
  IF Len(rawRows) = 0 THEN [headerRow |-> <<>>, logicalRows |-> <<>>]
  ELSE LET headerRow == HeaderRowOf(rawRows)
           IsData(r) == RowIndexString(r) # RowIndexString(headerRow)
           dataRows == SelectSeq(rawRows, IsData)
           IsContent(key) ==
             /\ IsContentColumnName(toLowerCase(key))
             /\ trim(Get(headerRow, key)) # ""
           contentCols == SelectSeq(Keys(headerRow), IsContent)
       IN  [ headerRow |-> headerRow,
             logicalRows |->
               [k \in DOMAIN dataRows |->
                  Put(LogicalFrom(dataRows[k], headerRow, contentCols, Len(contentCols)),
                      "_row_index", GetOr(dataRows[k], "row_index"))] ]

\* /<a>.*<b>/.test(s) for literals a and b, on a text of one line
IncludesInOrder(s, a, b) ==
  \E i \in 1..(Len(s) - Len(a) + 1) :
    /\ SubSeq(s, i, i + Len(a) - 1) = a
    /\ Includes(SubSeq(s, i + Len(a), Len(s)), b)

IncludesAny(s, needles) == \E n \in needles : Includes(s, n)

detectTableSubtype(chunk, logicalRows) ==
  LET caption == toLowerCase(chunk.caption)
      section == toLowerCase(chunk.section_path)
      headers == IF Len(logicalRows) # 0
                 THEN {toLowerCase(h) : h \in Range(Keys(logicalRows[1]))}
                 ELSE {}
      hasHeader(needles) == \E h \in headers : IncludesAny(h, needles)
  IN  IF \/ IncludesAny(caption, {"dose", "dosage", "mg/kg", "mg/ day", "mg per kg",
                                  "weight band", "weight-band"})
         \/ hasHeader({"kg"})
      THEN IF \/ IncludesAny(caption, {"child", "paediatric", "pediatric", "infant",
                                       "neonate"})
              \/ Includes(section, "child")
           THEN "peds_dosing"
           ELSE "dosing"
      ELSE IF \/ IncludesAny(caption, {"eligib", "criteria", "decision", "indication",
                                       "when to"})
              \/ IncludesInOrder(caption, "if", "then")
              \/ hasHeader({"criteria", "recommendation", "option", "action"})
      THEN "decision"
      ELSE IF /\ hasHeader({"regimen"})
              /\ hasHeader({"drug", "component", "medicine", "combination"})
      THEN "regimen"
      ELSE IF \/ IncludesAny(caption, {"monitoring", "follow-up", "follow up",
                                       "timeline", "schedule"})
              \/ hasHeader({"baseline", "month", "week", "visit", "timepoint"})
      THEN "timeline"
      ELSE IF \/ IncludesAny(caption, {"interaction", "drug-drug", "drug drug", "qt",
                                       "contraindication"})
              \/ hasHeader({"interaction", "effect", "recommendation"})
      THEN "interaction"
      ELSE IF \/ IncludesAny(caption, {"toxicity", "adverse event", "side effect",
                                       "hepatotox", "neuropathy", "ae management"})
              \/ hasHeader({"grade", "toxicity", "ctcae"})
      THEN "toxicity"
      ELSE "generic"

\* Object.keys(logicalRows[0] || {}).filter((h) => h !== "_row_index")
getTableHeaders(logicalRows) ==
  IF Len(logicalRows) = 0 THEN <<>>
  ELSE LET NotRowIndex(h) == h # "_row_index"
       IN  SelectSeq(Keys(logicalRows[1]), NotRowIndex)

RECURSIVE Join(_, _)
\* Array.prototype.join
Join(parts, sep) ==
  IF Len(parts) = 0 THEN ""
  ELSE IF Len(parts) = 1 THEN parts[1]
  ELSE parts[1] \o sep \o Join(Tail(parts), sep)

\* a generic renderer without the notice for a table without rows
renderGenericTable_NoNotice(chunk, logicalRows) ==
  LET caption == IF chunk.caption # "" THEN chunk.caption ELSE "Table"
      headers == getTableHeaders(logicalRows)
      Cells(row) == Join([k \in DOMAIN headers |->
                            headers[k] \o ": " \o GetOr(row, headers[k])], "; ")
  IN  IF Len(logicalRows) = 0 \/ Len(headers) = 0
      THEN ""
      ELSE Join(<<caption \o ". Columns: " \o Join(headers, ", ")>> \o
                [idx \in DOMAIN logicalRows |->
                   "Row " \o ToString(idx) \o ": " \o Cells(logicalRows[idx])],
                "\n")

renderGenericTable(chunk, logicalRows) ==
  LET caption == IF chunk.caption # "" THEN chunk.caption ELSE "Table"
      headers == getTableHeaders(logicalRows)
      Cells(row) == Join([k \in DOMAIN headers |->
                            headers[k] \o ": " \o GetOr(row, headers[k])], "; ")
  IN  IF Len(logicalRows) = 0 \/ Len(headers) = 0
      THEN caption \o ". (No rows found.)"
      ELSE Join(<<caption \o ". Columns: " \o Join(headers, ", ")>> \o
                [idx \in DOMAIN logicalRows |->
                   "Row " \o ToString(idx) \o ": " \o Cells(logicalRows[idx])],
                "\n")

\* val !== undefined && val !== null && String(val).trim() !== ""
nonEmpty(val) == trim(val) # ""

\* headers.find(Test) || orElse
Find(headers, Test(_), orElse) ==
  IF \E k \in DOMAIN headers : Test(headers[k])
  THEN headers[CHOOSE k \in DOMAIN headers :
                 Test(headers[k]) /\ \A j \in 1..(k - 1) : ~Test(headers[j])]
  ELSE orElse

\* the labels "h: value" of the non-empty cells of row under headers
LabelledCells(headers, row) ==
  LET Filled(h) == nonEmpty(GetOr(row, h))
      filled == SelectSeq(headers, Filled)
  IN  [k \in DOMAIN filled |-> filled[k] \o ": " \o trim(GetOr(row, filled[k]))]

\* the lines the loop over the logical rows pushes: Line(row, idx) is the
\* line of a row, "" for a row the loop leaves without a line
PushedLines(logicalRows, Line(_, _)) ==
  LET Pushed(l) == l # ""
  IN  SelectSeq([idx \in DOMAIN logicalRows |-> Line(logicalRows[idx], idx)], Pushed)

\* the { text, debug } object of renderGenericTable where a renderer returns
\* it in the place of a text
GenericObject(chunk, logicalRows) ==
  [t |-> "object", text |-> Str(renderGenericTable(chunk, logicalRows))]

\* /medicine|drug|product|regimen|group|tb drug/i
IsMedicineHeader(h) ==
  IncludesAny(toLowerCase(h), {"medicine", "drug", "product", "regimen", "group",
                               "tb drug"})

\* /(kg|weight band|weight-band|weight range| to <| to <=|>=|<=|>=)/i; the
\* two alternatives with the signs of one character for "at most" and "at
\* least" need a header label that is not ASCII
IsWeightBandHeader(h) ==
  IncludesAny(toLowerCase(h), {"kg", "weight band", "weight-band", "weight range",
                               " to <", "<=", ">="})

renderDosingTable(chunk, logicalRows) ==
  LET caption == IF chunk.caption # "" THEN chunk.caption ELSE "Dosing table"
      headers == getTableHeaders(logicalRows)
      medKey == Find(headers, IsMedicineHeader, headers[1])
      weightBandKeys == SelectSeq(headers, IsWeightBandHeader)
      Line(row, idx) ==
        LET med == GetOr(row, medKey)
            bandParts == LabelledCells(weightBandKeys, row)
            cells == LabelledCells(headers, row)
        IN  IF ~nonEmpty(med) THEN ""
            ELSE IF Len(bandParts) = 0
                 THEN IF Len(cells) = 0 THEN "" ELSE med \o ": " \o Join(cells, "; ")
                 ELSE med \o ": " \o Join(bandParts, "; ")
  IN  IF Len(logicalRows) = 0 \/ Len(headers) = 0
      THEN Str(caption \o ". (No rows found.)")
      ELSE IF Len(weightBandKeys) = 0 THEN GenericObject(chunk, logicalRows)
      ELSE Str(Join(<<caption \o ". Weight-band dosing summary:">>
                      \o PushedLines(logicalRows, Line), "\n"))

\* /formulation|form|dispersible|fdc/i
IsFormHeader(h) ==
  IncludesAny(toLowerCase(h), {"formulation", "form", "dispersible", "fdc"})

\* the em dash of the source is written "--"
renderPedsDosingTable(chunk, logicalRows) ==
  LET caption == IF chunk.caption # "" THEN chunk.caption ELSE "Paediatric dosing table"
      headers == getTableHeaders(logicalRows)
      medKey == Find(headers, IsMedicineHeader, headers[1])
      formKey == Find(headers, IsFormHeader, "")
      weightBandKeys == SelectSeq(headers, IsWeightBandHeader)
      Line(row, idx) ==
        LET med == GetOr(row, medKey)
            form == IF formKey # "" THEN GetOr(row, formKey) ELSE ""
            start == IF form # "" THEN med \o " (" \o form \o ")" ELSE med
            bandParts == LabelledCells(weightBandKeys, row)
            cells == LabelledCells(headers, row)
        IN  IF ~nonEmpty(med) THEN ""
            ELSE IF Len(bandParts) = 0
                 THEN IF Len(cells) = 0 THEN "" ELSE start \o " -- " \o Join(cells, "; ")
                 ELSE start \o " -- " \o Join(bandParts, "; ")
  IN  IF Len(logicalRows) = 0 \/ Len(headers) = 0
      THEN Str(caption \o ". (No rows found.)")
      ELSE IF Len(weightBandKeys) = 0 THEN GenericObject(chunk, logicalRows)
      ELSE Str(Join(<<caption \o ". Paediatric weight-band dosing summary:">>
                      \o PushedLines(logicalRows, Line), "\n"))

\* /regimen|name|strategy|option/i
IsRegimenHeader(h) ==
  IncludesAny(toLowerCase(h), {"regimen", "name", "strategy", "option"})

\* /drug|component|medicine|composition/i
IsDrugsHeader(h) ==
  IncludesAny(toLowerCase(h), {"drug", "component", "medicine", "composition"})

\* /duration|months|weeks|days|length of treatment/i
IsDurationHeader(h) ==
  IncludesAny(toLowerCase(h), {"duration", "months", "weeks", "days",
                               "length of treatment"})

renderRegimenTable(chunk, logicalRows) ==
  LET caption == IF chunk.caption # "" THEN chunk.caption
                 ELSE "Regimen composition table"
      headers == getTableHeaders(logicalRows)
      regimenKey == Find(headers, IsRegimenHeader, headers[1])
      drugsKey == Find(headers, IsDrugsHeader, "")
      durationKey == Find(headers, IsDurationHeader, "")
      Line(row, idx) ==
        LET regimen == GetOr(row, regimenKey)
            cells == LabelledCells(headers, row)
            drugs == IF drugsKey # "" /\ nonEmpty(GetOr(row, drugsKey))
                     THEN <<trim(GetOr(row, drugsKey))>> ELSE <<>>
            duration == IF durationKey # "" /\ nonEmpty(GetOr(row, durationKey))
                        THEN <<"duration: " \o trim(GetOr(row, durationKey))>>
                        ELSE <<>>
            parts == drugs \o duration
        IN  IF ~nonEmpty(regimen)
            THEN IF Len(cells) = 0 THEN ""
                 ELSE "Row " \o ToString(idx) \o ": " \o Join(cells, "; ")
            ELSE IF Len(parts) = 0 THEN regimen \o ": " \o Join(cells, "; ")
            ELSE regimen \o " -- " \o Join(parts, "; ")
  IN  IF Len(logicalRows) = 0 \/ Len(headers) = 0
      THEN Str(caption \o ". (No rows found.)")
      ELSE Str(Join(<<caption \o ". Regimen components and options:">>
                      \o PushedLines(logicalRows, Line), "\n"))

\* /if|criteria|condition|situation|scenario|finding|result|status|baseline|risk/i
isConditionHeader(h) ==
  IncludesAny(toLowerCase(h), {"if", "criteria", "condition", "situation", "scenario",
                               "finding", "result", "status", "baseline", "risk"})

\* /then|recommendation|action|management|treatment|decision|next step|regimen/i
isActionHeader(h) ==
  IncludesAny(toLowerCase(h), {"then", "recommendation", "action", "management",
                               "treatment", "decision", "next step", "regimen"})

\* the en dash of the source is written "-"
renderDecisionTable(chunk, logicalRows) ==
  LET caption == IF chunk.caption # "" THEN chunk.caption ELSE "Decision table"
      headers == getTableHeaders(logicalRows)
      IsCondition(h) == ~isActionHeader(h) /\ isConditionHeader(h)
      IsOther(h) == ~isActionHeader(h) /\ ~isConditionHeader(h)
      Conditions(row) == LabelledCells(SelectSeq(headers, IsCondition), row)
      Actions(row) == LabelledCells(SelectSeq(headers, isActionHeader), row)
      Others(row) == LabelledCells(SelectSeq(headers, IsOther), row)
      HasIfThen(row) == Len(Conditions(row)) # 0 \/ Len(Actions(row)) # 0
      Line(row, idx) ==
        LET otherParts == Others(row)
            conditionParts == IF Len(Conditions(row)) = 0 /\ Len(otherParts) # 0
                              THEN otherParts ELSE Conditions(row)
            actionParts == IF /\ ~(Len(Conditions(row)) = 0 /\ Len(otherParts) # 0)
                              /\ Len(Actions(row)) = 0 /\ Len(otherParts) # 0
                           THEN otherParts ELSE Actions(row)
            condText == IF Len(conditionParts) # 0 THEN Join(conditionParts, "; ")
                        ELSE "the criteria in this row are met"
            actionText == IF Len(actionParts) # 0 THEN Join(actionParts, "; ")
                          ELSE "see other columns in this row for recommended action"
        IN  IF ~HasIfThen(row)
            THEN IF Len(otherParts) = 0 THEN ""
                 ELSE "Row " \o ToString(idx) \o ": " \o Join(otherParts, "; ")
            ELSE "IF " \o condText \o " THEN " \o actionText
      rowsWithIfThen == Cardinality({idx \in DOMAIN logicalRows :
                                       HasIfThen(logicalRows[idx])})
  IN  IF Len(logicalRows) = 0 \/ Len(headers) = 0
      THEN Str(caption \o ". (No rows found.)")
      ELSE IF rowsWithIfThen = 0 THEN GenericObject(chunk, logicalRows)
      ELSE Str(Join(<<caption \o ". IF-THEN decision rules:">>
                      \o PushedLines(logicalRows, Line), "\n"))

\* /(month|week|day)\s*\d+/
UnitThenNumber(s) ==
  \E unit \in {"month", "week", "day"} :
    \E i \in 1..Len(s) :
      /\ StartsWith(SubSeq(s, i, Len(s)), unit)
      /\ \E j \in (i + Len(unit))..Len(s) :
           /\ IsDigit(CharAt(s, j))
           /\ \A k \in (i + Len(unit))..(j - 1) : IsSpace(CharAt(s, k))

looksTimeLike(value) ==
  LET s == toLowerCase(value)
  IN  /\ value # ""
      /\ \/ IncludesAny(s, {"baseline", "month", "week", "day", "visit", "timepoint",
                            "end of treatment", "posttreatment", "follow-up",
                            "follow up", "followup"})
         \/ UnitThenNumber(s)

guessTimelineOrientation(logicalRows) ==
  LET headers == getTableHeaders(logicalRows)
      timeHeaders == SelectSeq(headers, looksTimeLike)
      NoTime(h) == ~looksTimeLike(h)
      firstCol == headers[1]
      sampleRows == Slice(logicalRows, 6)
      timeLikeCount == Cardinality({k \in DOMAIN sampleRows :
                                      looksTimeLike(GetOr(sampleRows[k], firstCol))})
  IN  IF Len(headers) = 0 THEN [orientation |-> "unknown"]
      ELSE IF Len(timeHeaders) >= 2
      THEN [ orientation |-> "cols",
             entityHeader |-> Find(headers, NoTime, headers[1]),
             timeHeaders |-> timeHeaders ]
      ELSE IF timeLikeCount >= 2
      THEN [ orientation |-> "rows", timeKey |-> firstCol,
             entityHeaders |-> Tail(headers) ]
      ELSE [orientation |-> "unknown"]

renderTimelineTable(chunk, logicalRows) ==
  LET caption == IF chunk.caption # "" THEN chunk.caption ELSE "Monitoring schedule"
      headers == getTableHeaders(logicalRows)
      info == guessTimelineOrientation(logicalRows)
      ColsLine(row, idx) ==
        LET entity == GetOr(row, info.entityHeader)
            timeParts == LabelledCells(info.timeHeaders, row)
        IN  IF ~nonEmpty(entity) \/ Len(timeParts) = 0 THEN ""
            ELSE "For " \o entity \o ": " \o Join(timeParts, "; ")
      RowsLine(row, idx) ==
        LET when == GetOr(row, info.timeKey)
            parts == LabelledCells(info.entityHeaders, row)
        IN  IF ~nonEmpty(when) \/ Len(parts) = 0 THEN ""
            ELSE "At " \o when \o ": " \o Join(parts, "; ")
      first == caption \o ". Follow-up schedule over time:"
  IN  IF Len(logicalRows) = 0 \/ Len(headers) = 0
      THEN Str(caption \o ". (No rows found.)")
      ELSE IF /\ info.orientation = "cols"
              /\ Len(PushedLines(logicalRows, ColsLine)) # 0
      THEN Str(Join(<<first>> \o PushedLines(logicalRows, ColsLine), "\n"))
      ELSE IF /\ info.orientation = "rows"
              /\ Len(PushedLines(logicalRows, RowsLine)) # 0
      THEN Str(Join(<<first>> \o PushedLines(logicalRows, RowsLine), "\n"))
      ELSE GenericObject(chunk, logicalRows)

\* the two patterns of isDrugHeader
isDrugHeader(h) ==
  \/ IncludesAny(toLowerCase(h),
                 {"drug 1", "drug1", "drug 2", "drug2", "drug a", "drug b",
                  "medicine 1", "medicine 2", "comedication", "arv", "antiretroviral",
                  "tb drug", "rifampin", "rifampicin", "rifapentine"})
  \/ IncludesAny(toLowerCase(h), {"drug", "medicine", "regimen"})

\* /interaction|effect|impact|change in level/i
IsEffectHeader(h) ==
  IncludesAny(toLowerCase(h), {"interaction", "effect", "impact", "change in level"})

\* /recommendation|management|action|dose adjustment|avoid/i
IsRecommendationHeader(h) ==
  IncludesAny(toLowerCase(h), {"recommendation", "management", "action",
                               "dose adjustment", "avoid"})

\* the dashes of the source are written "-" and "--"
renderInteractionTable(chunk, logicalRows) ==
  LET caption == IF chunk.caption # "" THEN chunk.caption
                 ELSE "Drug-drug interaction table"
      headers == getTableHeaders(logicalRows)
      effectKey == Find(headers, IsEffectHeader, "")
      recKey == Find(headers, IsRecommendationHeader, "")
      drugHeaders == SelectSeq(headers, isDrugHeader)
      Drugs(row) ==
        LET Filled(h) == nonEmpty(GetOr(row, h))
            filled == SelectSeq(drugHeaders, Filled)
        IN  [k \in DOMAIN filled |-> trim(GetOr(row, filled[k]))]
      Line(row, idx) ==
        LET drugs == Drugs(row)
            effect == IF effectKey # "" THEN trim(GetOr(row, effectKey)) ELSE ""
            rec == IF recKey # "" THEN trim(GetOr(row, recKey)) ELSE ""
            cells == LabelledCells(headers, row)
            combo == IF Len(drugs) # 0 THEN "Combination " \o Join(drugs, " + ") ELSE ""
            withEffect == IF effect = "" THEN combo
                          ELSE combo \o (IF combo # "" THEN " -- " ELSE "")
                                     \o "effect: " \o effect
            withRec == IF rec = "" THEN withEffect
                       ELSE withEffect \o (IF withEffect # "" THEN "; " ELSE "")
                                       \o "recommendation: " \o rec
        IN  IF Len(drugs) = 0 /\ effect = "" /\ rec = ""
            THEN IF Len(cells) = 0 THEN ""
                 ELSE "Row " \o ToString(idx) \o ": " \o Join(cells, "; ")
            ELSE withRec
      rowsWithCombos == Cardinality({idx \in DOMAIN logicalRows :
                                       Len(Drugs(logicalRows[idx])) # 0})
  IN  IF Len(logicalRows) = 0 \/ Len(headers) = 0
      THEN Str(caption \o ". (No rows found.)")
      ELSE IF Len(drugHeaders) = 0 \/ rowsWithCombos = 0
      THEN GenericObject(chunk, logicalRows)
      ELSE Str(Join(<<caption \o ". Drug combinations and recommendations:">>
                      \o PushedLines(logicalRows, Line), "\n"))

\* /grade|severity|ctcae/i
IsGradeHeader(h) == IncludesAny(toLowerCase(h), {"grade", "severity", "ctcae"})

\* /description|finding|toxicity|event|symptom/i
IsDescriptionHeader(h) ==
  IncludesAny(toLowerCase(h), {"description", "finding", "toxicity", "event",
                               "symptom"})

\* /management|action|recommendation|dose adjustment|stop/i
IsManagementHeader(h) ==
  IncludesAny(toLowerCase(h), {"management", "action", "recommendation",
                               "dose adjustment", "stop"})

\* the em dash of the source is written "--"
renderToxicityTable(chunk, logicalRows) ==
  LET caption == IF chunk.caption # "" THEN chunk.caption
                 ELSE "Toxicity / adverse event table"
      headers == getTableHeaders(logicalRows)
      gradeKey == Find(headers, IsGradeHeader, headers[1])
      descKey == Find(headers, IsDescriptionHeader, "")
      mgmtKey == Find(headers, IsManagementHeader, "")
      Line(row, idx) ==
        LET grade == GetOr(row, gradeKey)
            desc == IF descKey # "" THEN GetOr(row, descKey) ELSE ""
            mgmt == IF mgmtKey # "" THEN GetOr(row, mgmtKey) ELSE ""
            cells == LabelledCells(headers, row)
            parts == (IF nonEmpty(desc) THEN <<trim(desc)>> ELSE <<>>)
                       \o (IF nonEmpty(mgmt) THEN <<"management: " \o trim(mgmt)>>
                           ELSE <<>>)
        IN  IF ~nonEmpty(grade) /\ ~nonEmpty(desc) /\ ~nonEmpty(mgmt)
            THEN IF Len(cells) = 0 THEN ""
                 ELSE "Row " \o ToString(idx) \o ": " \o Join(cells, "; ")
            ELSE IF Len(parts) = 0
                 THEN "Grade " \o grade \o ": see table row " \o ToString(idx)
                 ELSE "Grade " \o grade \o ": " \o Join(parts, " -- ")
      rowsWithGrades ==
        Cardinality({idx \in DOMAIN logicalRows :
                       nonEmpty(GetOr(logicalRows[idx], gradeKey))})
  IN  IF Len(logicalRows) = 0 \/ Len(headers) = 0
      THEN Str(caption \o ". (No rows found.)")
      ELSE IF rowsWithGrades = 0 THEN GenericObject(chunk, logicalRows)
      ELSE Str(Join(<<caption \o ". Toxicity grades and management:">>
                      \o PushedLines(logicalRows, Line), "\n"))

\* the renderer of a subtype applied to the logical rows: the text of the
\* table, a string or the object a renderer passes on
RenderAs(subtype, chunk, logicalRows) ==
  CASE subtype = "dosing" -> renderDosingTable(chunk, logicalRows)
    [] subtype = "peds_dosing" -> renderPedsDosingTable(chunk, logicalRows)
    [] subtype = "regimen" -> renderRegimenTable(chunk, logicalRows)
    [] subtype = "decision" -> renderDecisionTable(chunk, logicalRows)
    [] subtype = "timeline" -> renderTimelineTable(chunk, logicalRows)
    [] subtype = "interaction" -> renderInteractionTable(chunk, logicalRows)
    [] subtype = "toxicity" -> renderToxicityTable(chunk, logicalRows)
    [] OTHER -> Str(renderGenericTable(chunk, logicalRows))

\* the subtype and the text of a table
renderTable(chunk, rawRows) ==
  LET logicalRows == normalizeTableRows(rawRows).logicalRows
      subtype == detectTableSubtype(chunk, logicalRows)
  IN  [ subtype |-> subtype, tableText |-> RenderAs(subtype, chunk, logicalRows) ]

\* the chunk with the table fields the response reads: the chunk itself when
\* it is no table, has no attachment, or its table cannot be loaded or
\* rendered
enrichChunkWithTable(tables, chunk) ==
  LET plain == [ chunk |-> chunk, table_subtype |-> Null, table_text |-> Null,
                 table_rows |-> Null ]
      loaded == loadTableRows(tables, chunk.attachment_path)
  IN  IF toLowerCase(chunk.content_type) # "table" \/ chunk.attachment_path = ""
      THEN plain
      ELSE IF loaded.threw THEN plain
      ELSE LET rendered == renderTable(chunk, loaded.value)
           IN  [ chunk |-> chunk,
                 table_subtype |-> Str(rendered.subtype),
                 table_text |-> rendered.tableText,
                 table_rows |-> [t |-> "rows", rows |-> loaded.value] ]

(***************************************************************************)
(* Main handler: the steps between two suspension points                   *)
(***************************************************************************)

\* the value of RAG_STORE before the first successful load
NoStore == [loaded |-> FALSE]

\* loadRagStore: the memoized store, or the store read from the files; the
\* read throws when a file is missing or cannot be parsed
loadRagStore(store, files) ==
  IF store.loaded THEN Returned(store)
  ELSE IF ~files.readable THEN Threw
  ELSE Returned([ loaded |-> TRUE,
                  chunks |-> files.chunks,
                  embeddings |-> [i \in DOMAIN files.rawEmbeddings |->
                                    normalize(files.rawEmbeddings[i])] ])

\* typeof body.top_k === "number" ? body.top_k : 8, in halves
RequestedTopK(body) == IF IsNumber(body.top_k) THEN body.top_k.n ELSE 2 * 8

\* the clamp without its upper bound
ClampTopK_NoUpper(finalTopK) == Max(2 * 1, finalTopK)

\* the clamp without its lower bound
ClampTopK_NoLower(finalTopK) == Min(finalTopK, 2 * 8)

\* Math.max(1, Math.min(finalTopK, 8)), in halves
ClampTopK(finalTopK) == Max(2 * 1, Min(finalTopK, 2 * 8))

\* Math.min(finalTopK, embeddings.length), in halves
CapTopK(finalTopK, embeddings) == Min(finalTopK, 2 * Len(embeddings))

\* the inferred scope first, the scope of the body when none is inferred
ResolveScope_InferredFirst(body) ==
  LET inferred == inferScopeFromQuestion(body.question)
  IN  IF inferred.threw THEN inferred
      ELSE IF inferred.value # "" THEN inferred
      ELSE IF Truthy(body.scope) THEN Returned(body.scope.s)
      ELSE inferred

\* body.scope || null, then the inferred scope when there is none
ResolveScope(body) ==
  IF Truthy(body.scope) THEN Returned(body.scope.s)
  ELSE inferScopeFromQuestion(body.question)

\* the document_hint of the body when it is a string, then the inferred
\* hint when there is none
ResolveDocumentHint(body) ==
  IF IsString(body.document_hint) /\ body.document_hint.s # ""
  THEN Returned(body.document_hint.s)
  ELSE inferDocHintFromQuestion(body.question)

\* !question || typeof question !== "string" || !question.trim()
QuestionInvalid(question) ==
  \/ ~Truthy(question)
  \/ ~IsString(question)
  \/ trim(question.s) = ""

ErrorResponse(status, message) == [status |-> status, body |-> [error |-> message]]

MSG_METHOD == "Use POST to query the TB RAG store."

MSG_QUESTION == "Missing or empty 'question' string in request body."

MSG_EMPTY == "RAG store is empty or failed to load."

MSG_JSON == "Unexpected token in JSON"

MSG_TYPE == "(question || \"\").toLowerCase is not a function"

MSG_READ == "ENOENT: no such file or directory"

MSG_EMBED == "OpenAI embeddings error"

MSG_CHUNK == "Cannot read properties of undefined (reading 'content_type')"

\* a handler that awaits the embedding of the question before it looks at
\* what loadRagStore returned
StartStep_EmbedBeforeEmptyCheck(request, store, files) ==
  IF request.method # "POST"
  THEN [ done |-> TRUE, store |-> store, reads |-> 0,
         res |-> ErrorResponse(405, MSG_METHOD) ]
  ELSE IF ~request.parses
  THEN [ done |-> TRUE, store |-> store, reads |-> 0,
         res |-> ErrorResponse(500, MSG_JSON) ]
  ELSE
    LET body == request.body
        question == body.question
        scope == ResolveScope(body)
        documentHint == ResolveDocumentHint(body)
        loaded == loadRagStore(store, files)
        reading == IF store.loaded THEN 0 ELSE 1
    IN  IF scope.threw \/ documentHint.threw
        THEN [ done |-> TRUE, store |-> store, reads |-> 0,
               res |-> ErrorResponse(500, MSG_TYPE) ]
        ELSE IF QuestionInvalid(question)
        THEN [ done |-> TRUE, store |-> store, reads |-> 0,
               res |-> ErrorResponse(400, MSG_QUESTION) ]
        ELSE IF loaded.threw
        THEN [ done |-> TRUE, store |-> store, reads |-> reading,
               res |-> ErrorResponse(500, MSG_READ) ]
        ELSE [ done |-> FALSE, store |-> loaded.value, reads |-> reading,
               locals |-> [ question |-> question.s,
                            finalTopK |-> CapTopK(ClampTopK(RequestedTopK(body)),
                                                  loaded.value.embeddings),
                            scope |-> scope.value,
                            documentHint |-> documentHint.value ] ]

\* The handler from its entry to its first suspension point or to its
\* response: the response when it ends there, the locals kept across the
\* await otherwise, the value of RAG_STORE it leaves, and the number of
\* times loadRagStore went to the corpus files (it does when RAG_STORE holds
\* no store).
StartStep(request, store, files) ==
  IF request.method # "POST"
  THEN [ done |-> TRUE, store |-> store, reads |-> 0,
         res |-> ErrorResponse(405, MSG_METHOD) ]
  ELSE IF ~request.parses
  THEN [ done |-> TRUE, store |-> store, reads |-> 0,
         res |-> ErrorResponse(500, MSG_JSON) ]
  ELSE
    LET body == request.body
        question == body.question
        scope == ResolveScope(body)
        documentHint == ResolveDocumentHint(body)
        loaded == loadRagStore(store, files)
        reading == IF store.loaded THEN 0 ELSE 1
    IN  IF scope.threw \/ documentHint.threw
        THEN [ done |-> TRUE, store |-> store, reads |-> 0,
               res |-> ErrorResponse(500, MSG_TYPE) ]
        ELSE IF QuestionInvalid(question)
        THEN [ done |-> TRUE, store |-> store, reads |-> 0,
               res |-> ErrorResponse(400, MSG_QUESTION) ]
        ELSE IF loaded.threw
        THEN [ done |-> TRUE, store |-> store, reads |-> reading,
               res |-> ErrorResponse(500, MSG_READ) ]
        ELSE IF Len(loaded.value.embeddings) = 0 \/ Len(loaded.value.chunks) = 0
        THEN [ done |-> TRUE, store |-> loaded.value, reads |-> reading,
               res |-> ErrorResponse(500, MSG_EMPTY) ]
        ELSE [ done |-> FALSE, store |-> loaded.value, reads |-> reading,
               locals |-> [ question |-> question.s,
                            finalTopK |-> CapTopK(ClampTopK(RequestedTopK(body)),
                                                  loaded.value.embeddings),
                            scope |-> scope.value,
                            documentHint |-> documentHint.value ] ]

\* value || null for a string
OrNull(s) == IF s = "" THEN Null ELSE Str(s)

\* one entry of results
ResultItem(tables, chunks, entry) ==
  With(enrichChunkWithTable(tables, ChunkOr(chunks, entry.index)),
       LAMBDA c :
         [ doc_id |-> c.chunk.doc_id,
           guideline_title |-> OrNull(c.chunk.guideline_title),
           chunk_id |-> c.chunk.chunk_id,
           section_path |-> c.chunk.section_path,
           text |-> c.chunk.text,
           content_type |-> OrNull(c.chunk.content_type),
           attachment_path |-> OrNull(c.chunk.attachment_path),
           table_subtype |-> c.table_subtype,
           table_text |-> c.table_text,
           table_rows |-> c.table_rows,
           score |-> entry.score ])

\* deduped.slice(0, finalTopK): a fractional count is truncated
Top(deduped, finalTopK) == Slice(deduped, finalTopK \div 2)

\* the 200 response built from the entries of top
Respond(locals, store, tables, top) ==
  [ status |-> 200,
    body |-> [ question |-> locals.question,
               top_k |-> locals.finalTopK,
               scope |-> OrNull(locals.scope),
               document_hint |-> OrNull(locals.documentHint),
               results |-> [k \in DOMAIN top |->
                              With(top[k], LAMBDA entry :
                                     ResultItem(tables, store.chunks, entry))] ] ]

\* The handler from the resolution of the embedding call to its response.
ResumeStep(locals, store, tables, qEmbedding) ==
  With(CandidateIndices(store, locals.scope, locals.documentHint),
       LAMBDA indices :
         IF PartitionThrows(store, indices) THEN ErrorResponse(500, MSG_CHUNK)
         ELSE With(Top(Deduped(store, indices, qEmbedding), locals.finalTopK),
                   LAMBDA top : Respond(locals, store, tables, top)))

TableRow(index, a, b) ==
  << <<"row_index", index>>, <<"ColumnA", a>>, <<"ColumnB", b>> >>

\* the CSV files deployed under public/, by path
TableFiles ==
  [ p \in {"public/tables/t1.csv", "public/tables/t3.csv"} |->
      IF p = "public/tables/t1.csv"
      THEN << TableRow("1", "Finding", "Note"),
              TableRow("2", "Cough", "2 weeks"),
              TableRow("3", "Fever", "") >>
      ELSE << TableRow("1", "Sample", "Test"),
              TableRow("2", "Sputum", "Culture") >> ]

\* the files as one request finds them: the reads of the files in failing fail
TablesSeen(failing) ==
  [ p \in DOMAIN TableFiles |-> [readable |-> p \notin failing, rows |-> TableFiles[p]] ]

\* the result item is a table with an attachment, whose file
\* enrichChunkWithTable reads
ReadsTable(item) ==
  /\ item.content_type # Null
  /\ toLowerCase(item.content_type.s) = "table"
  /\ item.attachment_path # Null

\* the paths of the table files the handler read while it built the response
\* and whose read failed: files that are not deployed, and the files in failing
FailedReads(response, failing) ==
  IF response.status # 200 THEN {}
  ELSE { p \in { resolveTablePath(item.attachment_path.s) :
                   item \in {i \in Range(response.body.results) : ReadsTable(i)} } :
           p \in failing \/ p \notin DOMAIN TableFiles }

(***************************************************************************)
(* The deployments and the requests the model ranges over                  *)
(***************************************************************************)

Chunk(doc, id, section, ctype, scope, attachment) ==
  [ doc_id |-> doc, chunk_id |-> id, section_path |-> section,
    content_type |-> ctype, scope |-> scope, guideline_title |-> "",
    attachment_path |-> attachment, caption |-> "", text |-> "text of " \o id ]

\* Pairs of a chunk record and its raw embedding: prose and table chunks,
\* a table next to a prose section (same doc_id, section key "2.5"), a
\* table whose file is not deployed, a prose chunk and a table without
\* doc_id in section 2.5, the table repeating the chunk_id of a prose chunk,
\* a chunk that carries a scope tag, and a chunk without chunk_id.
ChunkPool ==
  << [ chunk |-> Chunk("module3_diagnosis", "p1", "2.5 | Diagnosis", "text", "", ""),
       raw |-> <<3, 4>> ],
     [ chunk |-> Chunk("module4_treatment", "p2", "3.1 | Treatment regimens", "", "", ""),
       raw |-> <<8, 6>> ],
     [ chunk |-> Chunk("", "p3", "2.5 | Children", "text", "Pediatrics", ""),
       raw |-> <<0, 5>> ],
     [ chunk |-> Chunk("module3_diagnosis", "t1", "2.5 | Table 2", "table", "",
                       "tables/t1.csv"),
       raw |-> <<0, 5>> ],
     [ chunk |-> Chunk("module4_treatment", "t2", "Annex 9", "Table", "",
                       ".\\tables\\t2.csv"),
       raw |-> <<5, 0>> ],
     [ chunk |-> Chunk("", "p1", "2.5", "TABLE", "", ""),
       raw |-> <<6, 8>> ],
     [ chunk |-> Chunk("module3_diagnosis", "", "2.5 | Diagnosis", "text", "", ""),
       raw |-> <<5, 0>> ] >>

\* the largest number of pool chunks in a generated corpus
MaxChunks == 2

\* the sizes of the two channels of the large corpus
NumBigProse == 11

NumBigTables == 6

RawVectors == << <<3, 4>>, <<4, 3>>, <<0, 5>>, <<5, 0>> >>

\* A corpus whose channels exceed the channel limits: prose chunk k lies in
\* section 4.k of one document, and table chunk j, when j is odd, in the
\* section of the prose chunk j + NumBigTables (and so next to it).
BigChunks ==
  [k \in 1..(NumBigProse + NumBigTables) |->
     IF k <= NumBigProse
     THEN Chunk("handbook", "bp" \o ToString(k), "4." \o ToString(k) \o " | Care",
                "text", "", "")
     ELSE LET j == k - NumBigProse
          IN  Chunk("handbook", "bt" \o ToString(j),
                    IF j % 2 = 1 THEN "4." \o ToString(j + NumBigTables)
                    ELSE "Annex " \o ToString(j),
                    "table", "",
                    IF j = 1 THEN "tables/t1.csv"
                    ELSE IF j % 2 = 1 THEN "public/tables/t3.csv" ELSE "") ]

BigCorpus ==
  [ readable |-> TRUE,
    chunks |-> BigChunks,
    rawEmbeddings |-> [k \in DOMAIN BigChunks |-> RawVectors[(k % Len(RawVectors)) + 1]] ]

\* A corpus whose prose channel alone exceeds the largest top_k: the prose
\* chunks of the large corpus and one table chunk of another section, whose
\* vector points away from theirs.
ProseHeavyCorpus ==
  [ readable |-> TRUE,
    chunks |-> SubSeq(BigChunks, 1, NumBigProse)
                 \o <<Chunk("handbook", "ht1", "Annex 1", "table", "", "tables/t1.csv")>>,
    rawEmbeddings |-> [k \in 1..NumBigProse |-> RawVectors[(k % Len(RawVectors)) + 1]]
                        \o << <<-5, 0>> >> ]

\* A corpus whose table channel exceeds its limit while the whole corpus
\* fits into the largest top_k: one prose chunk and the table chunks of the
\* large corpus.
TableHeavyCorpus ==
  [ readable |-> TRUE,
    chunks |-> <<BigChunks[1]>> \o SubSeq(BigChunks, NumBigProse + 1, Len(BigChunks)),
    rawEmbeddings |-> [k \in 1..(NumBigTables + 1) |->
                         RawVectors[(k % Len(RawVectors)) + 1]] ]

\* the corpus made of the pool chunks at the positions sel, in pool order
PoolCorpus(sel) ==
  LET In(k) == k \in sel
      picked == SelectSeq([k \in DOMAIN ChunkPool |-> k], In)
  IN  [ readable |-> TRUE,
        chunks |-> [k \in DOMAIN picked |-> ChunkPool[picked[k]].chunk],
        rawEmbeddings |-> [k \in DOMAIN picked |-> ChunkPool[picked[k]].raw] ]

\* the corpus files of a deployment: aligned corpora of pool chunks, the
\* large corpus, the prose-heavy and the table-heavy corpus, an empty
\* corpus, unreadable files,
\* and corpora with one embedding more or one embedding less than chunks
Corpora ==
  { PoolCorpus(sel) : sel \in {x \in SUBSET DOMAIN ChunkPool :
                                 Cardinality(x) \in 1..MaxChunks} }
  \cup { BigCorpus, ProseHeavyCorpus, TableHeavyCorpus,
         [readable |-> TRUE, chunks |-> <<>>, rawEmbeddings |-> <<>>],
         [readable |-> FALSE, chunks |-> <<>>, rawEmbeddings |-> <<>>],
         [ PoolCorpus({1, 4}) EXCEPT !.rawEmbeddings = << <<3, 4>>, <<0, 5>>, <<5, 0>> >> ],
         [ PoolCorpus({1, 4, 5}) EXCEPT !.rawEmbeddings = << <<3, 4>>, <<0, 5>> >> ] }

Questions ==
  { Undefined, Num(84), Arr, Str(""), Str("   "),
    Str("What is TB?"),
    Str("Monitoring for a child?"),
    Str("Module 3 diagnostic algorithm") }

TopKs == { Undefined, Num(-2), Num(5), Num(6), Num(40) }

Scopes == { Undefined, Str(""), Str("Pediatrics"), Str("treatment") }

DocumentHints == { Undefined, Num(2), Str("Module 3"), Str("zzz") }

\* the JSON bodies: every question with every scope and document_hint, and
\* every top_k with two of the questions
Bodies ==
  [ question : Questions, top_k : {Undefined}, scope : Scopes,
    document_hint : DocumentHints ]
  \cup [ question : {Str("What is TB?"), Str("Module 3 diagnostic algorithm")},
         top_k : TopKs, scope : {Undefined, Str("treatment")},
         document_hint : {Undefined} ]

EmptyBody ==
  [ question |-> Undefined, top_k |-> Undefined, scope |-> Undefined,
    document_hint |-> Undefined ]

\* a GET request, a POST request whose body is not JSON, and the POST
\* requests with a JSON body
Requests ==
  { [method |-> "GET", parses |-> TRUE, body |-> EmptyBody],
    [method |-> "POST", parses |-> FALSE, body |-> EmptyBody] }
  \cup { [method |-> "POST", parses |-> TRUE, body |-> b] : b \in Bodies }

\* the raw vectors the embedding service may return
QueryVectors == { <<3, 4>>, <<0, -10>>, <<10, 0, 0>> }

(***************************************************************************)
(* State                                                                   *)
(***************************************************************************)

VARIABLES
  files,       \* the corpus files of the deployment
  RAG_STORE,   \* the memoized store of the process
  pc,          \* the position of the handler of each request
  req,         \* the request
  locals,      \* the locals of the handler kept across the await
  candidates,  \* the locals scopedIndices and indices after the filters
  broken,      \* the table files whose read failed during the request
  qvec,        \* the normalized embedding of the question
  res,         \* the response
  ended,       \* the number of calls of res.end
  reads,       \* the number of times loadRagStore went to the corpus files
  inflight,    \* the requests suspended at their embedding call when the
               \* embedding call of the request resolved
  input,       \* the function applied on its own and its arguments
  output       \* the value the function returned

vars ==
  <<files, RAG_STORE, pc, req, locals, candidates, broken, qvec, res, ended, reads,
    inflight, input, output>>

Reqs == {"r1"}

NoRequest == [method |-> "", parses |-> TRUE, body |-> EmptyBody]

NoLocals == [question |-> "", finalTopK |-> 0, scope |-> "", documentHint |-> ""]

NoResponse == [status |-> 0, body |-> [error |-> ""]]

NoCandidates == [scopedIndices |-> <<>>, indices |-> <<>>]

\* no function is applied on its own
NoInput == [fn |-> ""]

NoOutput == [returned |-> FALSE]

\* the largest number of reads of the corpus files the model follows
MaxReads == 3

Init ==
  /\ files \in Corpora
  /\ RAG_STORE = NoStore
  /\ pc = [r \in Reqs |-> "idle"]
  /\ req = [r \in Reqs |-> NoRequest]
  /\ locals = [r \in Reqs |-> NoLocals]
  /\ candidates = [r \in Reqs |-> NoCandidates]
  /\ broken = [r \in Reqs |-> {}]
  /\ qvec = [r \in Reqs |-> <<>>]
  /\ res = [r \in Reqs |-> NoResponse]
  /\ ended = [r \in Reqs |-> 0]
  /\ reads = 0
  /\ inflight = [r \in Reqs |-> {}]
  /\ input = NoInput
  /\ output = NoOutput

\* The handler of request r runs on request to its response or to the await
\* of the embedding call.
Arrive(r, request) ==
  /\ pc[r] = "idle"
  /\ LET step == StartStep(request, RAG_STORE, files)
     IN  /\ reads + step.reads <= MaxReads
         /\ reads' = reads + step.reads
         /\ req' = [req EXCEPT ![r] = request]
         /\ RAG_STORE' = step.store
         /\ IF step.done
            THEN /\ pc' = [pc EXCEPT ![r] = "done"]
                 /\ res' = [res EXCEPT ![r] = step.res]
                 /\ ended' = [ended EXCEPT ![r] = @ + 1]
                 /\ UNCHANGED locals
            ELSE /\ pc' = [pc EXCEPT ![r] = "embedding"]
                 /\ locals' = [locals EXCEPT ![r] = step.locals]
                 /\ UNCHANGED <<res, ended>>
  /\ UNCHANGED <<files, candidates, broken, qvec, inflight, input, output>>

\* A request arrives and its handler runs to its response or to the await
\* of the embedding call.
HandlerStart(r) == \E request \in Requests : Arrive(r, request)

\* a handler without the catch: the rejection of the embedding call ends the
\* handler and nothing is written to the response
EmbedFails_Unanswered(r) ==
  /\ pc[r] = "embedding"
  /\ pc' = [pc EXCEPT ![r] = "done"]
  /\ UNCHANGED <<files, RAG_STORE, req, locals, candidates, broken, qvec, res, ended,
                 reads, inflight, input, output>>

\* The embedding call fails (no API key, a rejected fetch, a response that
\* is not ok): the handler answers with the error.
EmbedFails(r) ==
  /\ pc[r] = "embedding"
  /\ pc' = [pc EXCEPT ![r] = "done"]
  /\ res' = [res EXCEPT ![r] = ErrorResponse(500, MSG_EMBED)]
  /\ ended' = [ended EXCEPT ![r] = @ + 1]
  /\ UNCHANGED <<files, RAG_STORE, req, locals, candidates, broken, qvec, reads,
                 inflight, input, output>>

\* a handler whose locals are variables of the module: the handler that
\* resumes finds the scope, the hint and the count of a request that is
\* still suspended
EmbedReturns_SharedLocals(r) ==
  /\ pc[r] = "embedding"
  /\ LET others == {o \in DOMAIN pc \ {r} : pc[o] = "embedding"}
         mine == IF others = {} THEN locals[r] ELSE locals[CHOOSE o \in others : TRUE]
     IN  /\ candidates' =
              [candidates EXCEPT ![r] =
                 [ scopedIndices |-> ScopedIndices(RAG_STORE, mine.scope),
                   indices |-> CandidateIndices(RAG_STORE, mine.scope,
                                                mine.documentHint) ]]
         /\ \E raw \in QueryVectors, failing \in SUBSET DOMAIN TableFiles :
              /\ qvec' = [qvec EXCEPT ![r] = normalize(raw)]
              /\ res' = [res EXCEPT ![r] =
                           ResumeStep(mine, RAG_STORE, TablesSeen(failing),
                                      normalize(raw))]
              /\ broken' = [broken EXCEPT ![r] = FailedReads(res'[r], failing)]
  /\ pc' = [pc EXCEPT ![r] = "done"]
  /\ ended' = [ended EXCEPT ![r] = @ + 1]
  /\ inflight' = [inflight EXCEPT
                    ![r] = {o \in DOMAIN pc \ {r} : pc[o] = "embedding"}]
  /\ UNCHANGED <<files, RAG_STORE, req, locals, reads, input, output>>

\* an enrichment that writes the text of the table into the chunk record of
\* the store
EmbedReturns_EnrichInPlace(r) ==
  /\ pc[r] = "embedding"
  /\ candidates' =
       [candidates EXCEPT ![r] =
          [ scopedIndices |-> ScopedIndices(RAG_STORE, locals[r].scope),
            indices |-> CandidateIndices(RAG_STORE, locals[r].scope,
                                         locals[r].documentHint) ]]
  /\ \E raw \in QueryVectors, failing \in SUBSET DOMAIN TableFiles :
       /\ qvec' = [qvec EXCEPT ![r] = normalize(raw)]
       /\ res' = [res EXCEPT ![r] =
                    ResumeStep(locals[r], RAG_STORE, TablesSeen(failing), normalize(raw))]
       /\ broken' = [broken EXCEPT ![r] = FailedReads(res'[r], failing)]
  /\ RAG_STORE' =
       [ RAG_STORE EXCEPT
           !.chunks =
             [i \in DOMAIN RAG_STORE.chunks |->
                IF /\ res'[r].status = 200
                   /\ \E item \in Range(res'[r].body.results) :
                        /\ item.chunk_id = RAG_STORE.chunks[i].chunk_id
                        /\ item.table_text # Null
                THEN [RAG_STORE.chunks[i] EXCEPT !.text = "table"]
                ELSE RAG_STORE.chunks[i]] ]
  /\ pc' = [pc EXCEPT ![r] = "done"]
  /\ ended' = [ended EXCEPT ![r] = @ + 1]
  /\ inflight' = [inflight EXCEPT
                    ![r] = {o \in DOMAIN pc \ {r} : pc[o] = "embedding"}]
  /\ UNCHANGED <<files, req, locals, reads, input, output>>

\* The embedding call returns: the handler ranks, enriches and answers.
EmbedReturns(r) ==
  /\ pc[r] = "embedding"
  /\ candidates' =
       [candidates EXCEPT ![r] =
          [ scopedIndices |-> ScopedIndices(RAG_STORE, locals[r].scope),
            indices |-> CandidateIndices(RAG_STORE, locals[r].scope,
                                         locals[r].documentHint) ]]
  /\ \E raw \in QueryVectors, failing \in SUBSET DOMAIN TableFiles :
       /\ qvec' = [qvec EXCEPT ![r] = normalize(raw)]
       /\ res' = [res EXCEPT ![r] =
                    ResumeStep(locals[r], RAG_STORE, TablesSeen(failing), normalize(raw))]
       /\ broken' = [broken EXCEPT ![r] = FailedReads(res'[r], failing)]
  /\ pc' = [pc EXCEPT ![r] = "done"]
  /\ ended' = [ended EXCEPT ![r] = @ + 1]
  /\ inflight' = [inflight EXCEPT
                    ![r] = {o \in DOMAIN pc \ {r} : pc[o] = "embedding"}]
  /\ UNCHANGED <<files, RAG_STORE, req, locals, reads, input, output>>

\* The handler has returned; the next request may arrive.
Return(r) ==
  /\ pc[r] = "done"
  /\ pc' = [pc EXCEPT ![r] = "idle"]
  /\ req' = [req EXCEPT ![r] = NoRequest]
  /\ locals' = [locals EXCEPT ![r] = NoLocals]
  /\ candidates' = [candidates EXCEPT ![r] = NoCandidates]
  /\ broken' = [broken EXCEPT ![r] = {}]
  /\ qvec' = [qvec EXCEPT ![r] = <<>>]
  /\ res' = [res EXCEPT ![r] = NoResponse]
  /\ ended' = [ended EXCEPT ![r] = 0]
  /\ inflight' = [inflight EXCEPT ![r] = {}]
  /\ UNCHANGED <<files, RAG_STORE, reads, input, output>>

Next ==
  \E r \in Reqs :
    \/ HandlerStart(r)
    \/ EmbedFails(r)
    \/ EmbedReturns(r)
    \/ Return(r)

Spec == Init /\ [][Next]_vars

\* The promise of the embedding call settles: fetch resolves or rejects, and
\* the event loop resumes the handler that awaits it.
EmbeddingSettles(r) == EmbedFails(r) \/ EmbedReturns(r)

SpecLive == Spec /\ \A r \in Reqs : WF_vars(EmbeddingSettles(r))

(***************************************************************************)
(* The functions applied on their own: a function and its arguments are    *)
(* drawn, one step applies the function, and the handler stays idle.       *)
(***************************************************************************)

\* a deployment without corpus files
NoFiles == [readable |-> FALSE, chunks |-> <<>>, rawEmbeddings |-> <<>>]

\* the handler is idle and stays so
HandlerIdle ==
  /\ files = NoFiles
  /\ RAG_STORE = NoStore
  /\ pc = [r \in Reqs |-> "idle"]
  /\ req = [r \in Reqs |-> NoRequest]
  /\ locals = [r \in Reqs |-> NoLocals]
  /\ candidates = [r \in Reqs |-> NoCandidates]
  /\ broken = [r \in Reqs |-> {}]
  /\ qvec = [r \in Reqs |-> <<>>]
  /\ res = [r \in Reqs |-> NoResponse]
  /\ ended = [r \in Reqs |-> 0]
  /\ reads = 0
  /\ inflight = [r \in Reqs |-> {}]

handlerVars ==
  <<files, RAG_STORE, pc, req, locals, candidates, broken, qvec, res, ended, reads,
    inflight>>

\* the function fn was applied and returned
Applied(fn) == input.fn = fn /\ output.returned

\* the words and phrases the questions are made of
QuestionPhrases ==
  << "Xpert", "smear", "diagnostic algorithm", "Module 3", "children", "infant",
     "monitor", "ECG", "renal", "program", "community", "regimen", "dose",
     "module 4", "consolidated", "therapy" >>

\* the largest number of phrases in a question
MaxPhrases == 3

RECURSIVE PhraseText(_, _)
\* the phrases at the positions sel from position k on, in order, with a
\* blank between two of them
PhraseText(sel, k) ==
  IF k > Len(QuestionPhrases) THEN ""
  ELSE IF k \in sel
       THEN IF \E j \in sel : j > k
            THEN QuestionPhrases[k] \o " " \o PhraseText(sel, k + 1)
            ELSE QuestionPhrases[k]
       ELSE PhraseText(sel, k + 1)

\* the questions the classifier is applied to: texts of up to MaxPhrases
\* phrases, no question, an empty question and a question that is no string
ClassifierQuestions ==
  { Str(PhraseText(sel, 1)) :
      sel \in {x \in SUBSET DOMAIN QuestionPhrases : Cardinality(x) <= MaxPhrases} }
  \cup { Undefined, Num(84) }

InitClassifier ==
  /\ HandlerIdle
  /\ input \in [ fn : {"inferScopeFromQuestion", "inferDocHintFromQuestion"},
                  question : ClassifierQuestions ]
  /\ output = NoOutput

InferScope ==
  /\ input.fn = "inferScopeFromQuestion"
  /\ ~output.returned
  /\ output' = [returned |-> TRUE, result |-> inferScopeFromQuestion(input.question)]
  /\ UNCHANGED <<handlerVars, input>>

InferDocHint ==
  /\ input.fn = "inferDocHintFromQuestion"
  /\ ~output.returned
  /\ output' = [returned |-> TRUE, result |-> inferDocHintFromQuestion(input.question)]
  /\ UNCHANGED <<handlerVars, input>>

NextClassifier == InferScope \/ InferDocHint

SpecClassifier == InitClassifier /\ [][NextClassifier]_vars

\* the largest number of chunks in a chunk list handed to the scope filter
MaxFilterChunks == 3

\* the scope values handed to the scope filter: none, the five it
\* recognizes, one of them in upper case, a scope tag and an unknown value
FilterScopes ==
  { "", "diagnosis", "treatment", "drug-safety", "pediatrics", "programmatic",
    "TREATMENT", "Pediatrics", "zzz" }

\* the arguments of the scope filter: a chunk list, the indices of its
\* chunks, with an index behind the list or without, and a scope
InitScopeFilter ==
  /\ HandlerIdle
  /\ \E sel \in {x \in SUBSET DOMAIN ChunkPool : Cardinality(x) \in 1..MaxFilterChunks},
        extra \in {0, 1}, scope \in FilterScopes :
       input = [ fn |-> "filterIndicesByScope",
                 indices |-> [i \in 1..(Cardinality(sel) + extra) |-> i],
                 chunks |-> PoolCorpus(sel).chunks,
                 scope |-> scope ]
  /\ output = NoOutput

FilterByScope ==
  /\ input.fn = "filterIndicesByScope"
  /\ ~output.returned
  /\ output' = [ returned |-> TRUE,
                 result |-> filterIndicesByScope(input.indices, input.chunks,
                                                 input.scope) ]
  /\ UNCHANGED <<handlerVars, input>>

NextScopeFilter == FilterByScope

SpecScopeFilter == InitScopeFilter /\ [][NextScopeFilter]_vars

\* the largest number of data rows in a table handed to the table functions
MaxRows == 2

\* the header cells of the first and of the second column of the tables
HeadersA == {"Weight (kg)", "Regimen", "Visit", "Drug", "Severity"}

HeadersB == {"Dose (mg)", "Drug", "Criteria", "Month 1", "Grade", "Effect", ""}

\* the cells of the data rows under the first and under the second column
CellsA(headerA) == IF headerA = "Visit" THEN {"", "Week 2"} ELSE {"", "30-35"}

CellsB == {"", "300 mg"}

\* the lists of data rows under a first column
DataCells(headerA) ==
  UNION {[1..n -> CellsA(headerA) \X CellsB] : n \in 0..MaxRows}

\* the ways the rows of a CSV file carry row_index: the header row "1" and
\* the data rows "2", "3", ...; no row_index column; "1" in every row; the
\* rows numbered from "2"; the header row "1" behind the data rows
RowIndexModes == {"numbered", "absent", "repeated", "from2", "headerLast"}

\* a row as Papa.parse returns it from a file with or without the column
\* row_index
ParsedRow(mode, index, a, b) ==
  IF mode = "absent" THEN << <<"ColumnA", a>>, <<"ColumnB", b>> >>
  ELSE << <<"row_index", index>>, <<"ColumnA", a>>, <<"ColumnB", b>> >>

\* the rows of a CSV file with the header cells headerA and headerB
ParsedRows(mode, headerA, headerB, cells) ==
  LET headerRow == ParsedRow(mode, IF mode = "from2" THEN "2" ELSE "1",
                             headerA, headerB)
      dataRows == [k \in DOMAIN cells |->
                     ParsedRow(mode,
                               CASE mode = "repeated" -> "1"
                                 [] mode = "from2" -> ToString(k + 2)
                                 [] OTHER -> ToString(k + 1),
                               cells[k][1], cells[k][2])]
  IN  IF mode = "headerLast" THEN dataRows \o <<headerRow>>
      ELSE <<headerRow>> \o dataRows

\* the captions and section paths of the table chunks: without a cue, with
\* the cue of one subtype, and with a cue for children
TableChunks ==
  { [caption |-> c, section_path |-> ""] :
      c \in {"", "Dose by weight band", "Dose for children", "Eligibility criteria",
             "Monitoring schedule", "Drug interaction", "Toxicity management"} }
    \cup { [caption |-> c, section_path |-> "Module 5 > Children"] :
             c \in {"", "Dose by weight band"} }

NoCaption == [caption |-> "", section_path |-> ""]

TableSubtypes ==
  {"dosing", "peds_dosing", "regimen", "decision", "timeline", "interaction",
   "toxicity", "generic"}

\* the arguments of the table functions: row lists for normalizeTableRows,
\* table chunks with the rows of their files for detectTableSubtype and
\* renderTable, and a subtype with rows for the renderer of the subtype
InitTables ==
  /\ HandlerIdle
  /\ \/ input = [ fn |-> "normalizeTableRows", chunk |-> NoCaption,
                  subtype |-> "", rawRows |-> <<>> ]
     \/ \E headerA \in HeadersA, headerB \in {"Dose (mg)", ""},
           mode \in RowIndexModes :
          \E cells \in DataCells(headerA) :
            input = [ fn |-> "normalizeTableRows", chunk |-> NoCaption,
                      subtype |-> "",
                      rawRows |-> ParsedRows(mode, headerA, headerB, cells) ]
     \/ \E fn \in {"detectTableSubtype", "renderTable"}, chunk \in TableChunks,
           headerA \in HeadersA, headerB \in HeadersB :
          \E cells \in {c \in DataCells(headerA) :
                          Len(c) <= 1 /\ \A k \in DOMAIN c : c[k][1] # "" /\ c[k][2] # ""} :
            input = [ fn |-> fn, chunk |-> chunk, subtype |-> "",
                      rawRows |-> ParsedRows("numbered", headerA, headerB, cells) ]
     \/ \E headerA \in HeadersA, headerB \in HeadersB :
          \E cells \in DataCells(headerA) :
            input = [ fn |-> "renderTable", chunk |-> NoCaption, subtype |-> "",
                      rawRows |-> ParsedRows("numbered", headerA, headerB, cells) ]
     \/ \E subtype \in TableSubtypes, headerA \in HeadersA, headerB \in HeadersB :
          \E cells \in DataCells(headerA) :
            input = [ fn |-> "render", chunk |-> NoCaption, subtype |-> subtype,
                      rawRows |-> ParsedRows("numbered", headerA, headerB, cells) ]
  /\ output = NoOutput

\* the logical rows of the table of the input
InputLogicalRows == normalizeTableRows(input.rawRows).logicalRows

Normalize ==
  /\ input.fn = "normalizeTableRows"
  /\ ~output.returned
  /\ output' = [returned |-> TRUE, result |-> normalizeTableRows(input.rawRows)]
  /\ UNCHANGED <<handlerVars, input>>

DetectSubtype ==
  /\ input.fn = "detectTableSubtype"
  /\ ~output.returned
  /\ output' = [ returned |-> TRUE,
                 result |-> detectTableSubtype(input.chunk, InputLogicalRows) ]
  /\ UNCHANGED <<handlerVars, input>>

\* the renderer of a subtype applied to logical rows
Render ==
  /\ input.fn = "render"
  /\ ~output.returned
  /\ output' = [ returned |-> TRUE,
                 result |-> RenderAs(input.subtype, input.chunk, InputLogicalRows) ]
  /\ UNCHANGED <<handlerVars, input>>

RenderTable ==
  /\ input.fn = "renderTable"
  /\ ~output.returned
  /\ output' = [returned |-> TRUE, result |-> renderTable(input.chunk, input.rawRows)]
  /\ UNCHANGED <<handlerVars, input>>

NextTables == Normalize \/ DetectSubtype \/ Render \/ RenderTable

SpecTables == InitTables /\ [][NextTables]_vars

(***************************************************************************)
(* Requests in flight together: two requests of one process, suspended at  *)
(* their embedding calls and resumed in any order.                         *)
(***************************************************************************)

ConcurrentReqs == {"r1", "r2"}

\* a corpus of a prose chunk and a table next to it, a corpus of a chunk
\* with a scope tag and a table whose file is not deployed, and a
\* deployment without corpus files
ConcurrentCorpora == { PoolCorpus({1, 4}), PoolCorpus({3, 5}), NoFiles }

\* a GET request and POST requests with a question of another type, with
\* and without scope, and with a top_k below the range
ConcurrentRequests ==
  { [method |-> "GET", parses |-> TRUE, body |-> EmptyBody],
    [method |-> "POST", parses |-> TRUE,
     body |-> [EmptyBody EXCEPT !.question = Num(84)]],
    [method |-> "POST", parses |-> TRUE,
     body |-> [EmptyBody EXCEPT !.question = Str("What is TB?")]],
    [method |-> "POST", parses |-> TRUE,
     body |-> [EmptyBody EXCEPT !.question = Str("Monitoring for a child?"),
                                !.scope = Str("Pediatrics")]],
    [method |-> "POST", parses |-> TRUE,
     body |-> [EmptyBody EXCEPT !.question = Str("What is TB?"),
                                !.top_k = Num(-2)]] }

InitConcurrent ==
  /\ files \in ConcurrentCorpora
  /\ RAG_STORE = NoStore
  /\ pc = [r \in ConcurrentReqs |-> "idle"]
  /\ req = [r \in ConcurrentReqs |-> NoRequest]
  /\ locals = [r \in ConcurrentReqs |-> NoLocals]
  /\ candidates = [r \in ConcurrentReqs |-> NoCandidates]
  /\ broken = [r \in ConcurrentReqs |-> {}]
  /\ qvec = [r \in ConcurrentReqs |-> <<>>]
  /\ res = [r \in ConcurrentReqs |-> NoResponse]
  /\ ended = [r \in ConcurrentReqs |-> 0]
  /\ reads = 0
  /\ inflight = [r \in ConcurrentReqs |-> {}]
  /\ input = NoInput
  /\ output = NoOutput

ConcurrentStart(r) == \E request \in ConcurrentRequests : Arrive(r, request)

NextConcurrent ==
  \E r \in ConcurrentReqs :
    \/ ConcurrentStart(r)
    \/ EmbedFails(r)
    \/ EmbedReturns(r)
    \/ Return(r)

SpecConcurrent == InitConcurrent /\ [][NextConcurrent]_vars

(***************************************************************************)
(* Properties of the responses                                             *)
(***************************************************************************)

\* request r was answered with a 200 response
Ok(r) == pc[r] = "done" /\ res[r].status = 200

\* the embedding call of request r returned
Embedded(r) == pc[r] = "done" /\ qvec[r] # <<>>

Results(r) == res[r].body.results

\* the scope filter of request r matched no chunk
ScopeFilterEmpty(r) ==
  /\ locals[r].scope # ""
  /\ \A i \in DOMAIN RAG_STORE.embeddings :
       ~ScopeMatches(ChunkOr(RAG_STORE.chunks, i), toLowerCase(locals[r].scope))

\* the document-hint filter of request r matched no chunk of the set it was
\* given
HintFilterEmpty(r) ==
  /\ buildDocHintTokens(locals[r].documentHint) # {}
  /\ \A i \in Range(candidates[r].scopedIndices) :
       ~HintMatches(ChunkOr(RAG_STORE.chunks, i),
                    buildDocHintTokens(locals[r].documentHint))

AllIndices == [i \in DOMAIN RAG_STORE.embeddings |-> i]

C2_UniqueChunkIds ==
  \A r \in Reqs :
    Ok(r) =>
      \A i, j \in DOMAIN Results(r) :
        i # j => Results(r)[i].chunk_id # Results(r)[j].chunk_id

\* a prose candidate and a table candidate carry the same chunk_id, and the
\* response has a result of that chunk_id
C2_Witness ==
  \E r \in Reqs :
    /\ Ok(r)
    /\ \E i, j \in Range(candidates[r].indices) :
         /\ i # j
         /\ ~IsTable(RAG_STORE.chunks[i])
         /\ IsTable(RAG_STORE.chunks[j])
         /\ RAG_STORE.chunks[i].chunk_id # ""
         /\ RAG_STORE.chunks[i].chunk_id = RAG_STORE.chunks[j].chunk_id
         /\ \E k \in DOMAIN Results(r) :
              Results(r)[k].chunk_id = RAG_STORE.chunks[i].chunk_id

\* C3: the results of a 200 response are in non-increasing order of score.
C3_SortedByScore ==
  \A r \in Reqs :
    Ok(r) =>
      \A k \in 1..(Len(Results(r)) - 1) :
        Results(r)[k].score >= Results(r)[k + 1].score

\* a response of three or more results of different scores with a table
\* result that ranks above a prose result
C3_Witness ==
  \E r \in Reqs :
    /\ Ok(r)
    /\ Len(Results(r)) >= 3
    /\ Results(r)[1].score > Results(r)[Len(Results(r))].score
    /\ \E k \in DOMAIN Results(r) :
         /\ ReadsTable(Results(r)[k])
         /\ \E m \in (k + 1)..Len(Results(r)) :
              /\ ~ReadsTable(Results(r)[m])
              /\ Results(r)[m].score < Results(r)[k].score

\* C4, as stated: when the scope filter or the document-hint filter matches
\* no chunk, the final candidate set is the set of all corpus indices.
C4_FallbackIsUnfiltered ==
  \A r \in Reqs :
    Embedded(r) =>
      ((ScopeFilterEmpty(r) \/ HintFilterEmpty(r)) =>
         candidates[r].indices = AllIndices)

\* C4, amended: a scope filter that matches no chunk hands all corpus indices
\* on to the document-hint filter, and a document-hint filter that matches no
\* chunk leaves the set it was given, which is the scope-filtered set.
C4_FallbackPerFilter ==
  \A r \in Reqs :
    Embedded(r) =>
      /\ ScopeFilterEmpty(r) => candidates[r].scopedIndices = AllIndices
      /\ HintFilterEmpty(r) => candidates[r].indices = candidates[r].scopedIndices
      /\ (ScopeFilterEmpty(r) /\ HintFilterEmpty(r)) =>
           candidates[r].indices = AllIndices

\* the scope filter kept some chunks and dropped others, the document-hint
\* filter matched none of the kept ones, and the ranker was handed the kept
\* ones
C4_Witness ==
  \E r \in Reqs :
    /\ Embedded(r)
    /\ locals[r].scope # ""
    /\ ~ScopeFilterEmpty(r)
    /\ Len(candidates[r].scopedIndices) < Len(AllIndices)
    /\ HintFilterEmpty(r)
    /\ candidates[r].indices = candidates[r].scopedIndices

\* C5: with a corpus in which every chunk has a chunk_id and no embedding
\* lacks its chunk, a request whose embedding call returned is answered 200
\* with one result or more, also when a filter matched nothing.
C5_NeverEmpty ==
  \A r \in Reqs :
    /\ (Embedded(r)
        /\ Len(RAG_STORE.embeddings) <= Len(RAG_STORE.chunks)
        /\ \A i \in DOMAIN RAG_STORE.chunks : RAG_STORE.chunks[i].chunk_id # "")
       => (res[r].status = 200 /\ Len(Results(r)) >= 1)
    /\ (Ok(r) /\ \A i \in DOMAIN RAG_STORE.chunks : RAG_STORE.chunks[i].chunk_id # "")
       => Len(Results(r)) >= 1

\* the caller sent top_k = -1 and a scope that matches no chunk, and the
\* response has a result
C5_Witness ==
  \E r \in Reqs :
    /\ Ok(r)
    /\ \A i \in DOMAIN RAG_STORE.chunks : RAG_STORE.chunks[i].chunk_id # ""
    /\ req[r].body.top_k = Num(-2)
    /\ ScopeFilterEmpty(r)
    /\ Len(Results(r)) >= 1

\* the cosine similarity of the question of request r and chunk i
CosOf(r, i) == cosineSim(qvec[r], RAG_STORE.embeddings[i])

\* the prose candidates of request r
ProseCandidates(r) ==
  {i \in Range(candidates[r].indices) : ~IsTable(RAG_STORE.chunks[i])}

\* the table candidates of request r
TableCandidates(r) ==
  {i \in Range(candidates[r].indices) : IsTable(RAG_STORE.chunks[i])}

\* the prose candidates that rank among the first ten by cosine similarity,
\* candidates of one score in corpus order
TopTenProse(r) ==
  {i \in ProseCandidates(r) :
     Cardinality({j \in ProseCandidates(r) :
                    \/ CosOf(r, j) > CosOf(r, i)
                    \/ CosOf(r, j) = CosOf(r, i) /\ j < i}) < 10}

\* table candidate i carries the doc_id and a section key of one of the first
\* ten prose candidates
AdjacentToTopProse(r, i) ==
  /\ RAG_STORE.chunks[i].doc_id # ""
  /\ \E a \in TopTenProse(r) :
       /\ RAG_STORE.chunks[a].doc_id = RAG_STORE.chunks[i].doc_id
       /\ extractSectionKeys(RAG_STORE.chunks[a].section_path)
            \cap extractSectionKeys(RAG_STORE.chunks[i].section_path) # {}

\* result item is the result of chunk c
ItemOf(item, c) ==
  /\ item.chunk_id = c.chunk_id
  /\ item.doc_id = c.doc_id
  /\ item.section_path = c.section_path
  /\ item.content_type = OrNull(c.content_type)

\* C6: every table candidate that carries the doc_id and a section key of one
\* of the ten best prose candidates has, after the boost and in the response,
\* a score of at least 0.98 times the best prose score and of at least its
\* own cosine similarity.
C6_AdjacentTablesBoosted ==
  \A r \in Reqs :
    Ok(r) =>
      \A i \in TableCandidates(r) :
        AdjacentToTopProse(r, i) =>
          /\ \A e \in Range(BoostedTables(RAG_STORE, candidates[r].indices, qvec[r],
                                          ScoredText(RAG_STORE, candidates[r].indices,
                                                     qvec[r])) ) :
               e.index = i =>
                 /\ \A a \in ProseCandidates(r) : 100 * e.score >= 98 * CosOf(r, a)
                 /\ e.score >= CosOf(r, i)
          /\ \A k \in DOMAIN Results(r) :
               ItemOf(Results(r)[k], RAG_STORE.chunks[i]) =>
                 /\ \A a \in ProseCandidates(r) :
                      100 * Results(r)[k].score >= 98 * CosOf(r, a)
                 /\ Results(r)[k].score >= CosOf(r, i)

\* a table in the section of a top prose candidate is returned with a score
\* above its cosine similarity, while a table in the section of the eleventh
\* prose candidate keeps its cosine similarity
C6_Witness ==
  \E r \in Reqs :
    /\ Ok(r)
    /\ Cardinality(ProseCandidates(r)) > 10
    /\ \E i \in TableCandidates(r), k \in DOMAIN Results(r) :
         /\ AdjacentToTopProse(r, i)
         /\ ItemOf(Results(r)[k], RAG_STORE.chunks[i])
         /\ Results(r)[k].score > CosOf(r, i)
    /\ \E i \in TableCandidates(r), a \in ProseCandidates(r) \ TopTenProse(r) :
         /\ ~AdjacentToTopProse(r, i)
         /\ RAG_STORE.chunks[a].doc_id = RAG_STORE.chunks[i].doc_id
         /\ extractSectionKeys(RAG_STORE.chunks[a].section_path)
              \cap extractSectionKeys(RAG_STORE.chunks[i].section_path) # {}

\* C7: every POST request with a JSON body whose question is missing, is no
\* string or is blank is answered with status 400, whatever scope and
\* document_hint it carries.
C7_InvalidQuestionIs400 ==
  \A r \in Reqs :
    ( /\ pc[r] = "done"
      /\ req[r].method = "POST"
      /\ req[r].parses
      /\ QuestionInvalid(req[r].body.question) )
    => res[r].status = 400

\* C8: every response other than a 200 response has a body of one error
\* string; a request of another method than POST is answered 405, a request
\* whose question fails the validation is answered in the 4xx class, and no
\* other request is.
C8_ErrorResponses ==
  \A r \in Reqs :
    (pc[r] = "done" /\ res[r].status # 200) =>
      /\ DOMAIN res[r].body = {"error"}
      /\ res[r].status \in {405, 400, 500}
      /\ req[r].method # "POST" <=> res[r].status = 405
      /\ ( /\ req[r].method = "POST"
           /\ req[r].parses
           /\ QuestionInvalid(req[r].body.question) )
         <=> res[r].status \div 100 = 4 /\ res[r].status # 405

\* the response of request r had every deployed table file been readable
Healthy(r) == ResumeStep(locals[r], RAG_STORE, TablesSeen({}), qvec[r])

\* the read of the table file of the result item failed
ReadFailed(r, item) ==
  /\ ReadsTable(item)
  /\ resolveTablePath(item.attachment_path.s) \in broken[r]

\* the result item without its table fields
Unenriched(item) ==
  [item EXCEPT !.table_subtype = Null, !.table_text = Null, !.table_rows = Null]

\* C9: when the table file of a result cannot be read, the response has the
\* status, echo and results it has when every file is readable, except that
\* the results whose read failed carry null table_subtype, table_text and
\* table_rows.
C9_TableFailureRecovered ==
  \A r \in Reqs :
    Embedded(r) =>
      /\ res[r].status = Healthy(r).status
      /\ res[r].status = 200 =>
           /\ [res[r].body EXCEPT !.results = <<>>]
                = [Healthy(r).body EXCEPT !.results = <<>>]
           /\ Len(Results(r)) = Len(Healthy(r).body.results)
           /\ \A k \in DOMAIN Results(r) :
                IF ReadFailed(r, Results(r)[k])
                THEN Results(r)[k] = Unenriched(Healthy(r).body.results[k])
                ELSE Results(r)[k] = Healthy(r).body.results[k]

\* the read of a deployed table file failed for one result, while another
\* table result carries its rows and a prose result is returned as well
C9_Witness ==
  \E r \in Reqs :
    /\ Ok(r)
    /\ \E k, m, n \in DOMAIN Results(r) :
         /\ ReadFailed(r, Results(r)[k])
         /\ Healthy(r).body.results[k].table_rows # Null
         /\ Results(r)[k].table_rows = Null
         /\ Results(r)[m].table_rows # Null
         /\ ~ReadsTable(Results(r)[n])

\* the scope of the body of request r counts as supplied
ScopeSupplied(r) == Truthy(req[r].body.scope)

\* the document_hint of the body of request r counts as supplied
HintSupplied(r) ==
  IsString(req[r].body.document_hint) /\ req[r].body.document_hint.s # ""

\* C10: a supplied scope (document_hint) is the value the handler filters
\* with and echoes, whatever the question would let it infer; the inferred
\* value is used when none is supplied.
C10_ExplicitWins ==
  \A r \in Reqs :
    (pc[r] = "embedding" \/ Ok(r)) =>
      /\ locals[r].scope =
           IF ScopeSupplied(r) THEN req[r].body.scope.s
           ELSE inferScopeFromQuestion(req[r].body.question).value
      /\ locals[r].documentHint =
           IF HintSupplied(r) THEN req[r].body.document_hint.s
           ELSE inferDocHintFromQuestion(req[r].body.question).value
      /\ Ok(r) =>
           /\ ScopeSupplied(r) => res[r].body.scope = req[r].body.scope
           /\ HintSupplied(r) => res[r].body.document_hint = req[r].body.document_hint
           /\ (ScopeSupplied(r) /\ ~ScopeFilterEmpty(r)) =>
                \A i \in Range(candidates[r].scopedIndices) :
                  ScopeMatches(RAG_STORE.chunks[i], toLowerCase(req[r].body.scope.s))
           /\ (HintSupplied(r) /\ ~HintFilterEmpty(r)
               /\ buildDocHintTokens(req[r].body.document_hint.s) # {}) =>
                \A i \in Range(candidates[r].indices) :
                  HintMatches(RAG_STORE.chunks[i],
                              buildDocHintTokens(req[r].body.document_hint.s))

\* a request whose question lets the handler infer a scope and a
\* document_hint carries another scope and another document_hint, and the
\* response echoes the two of the request
C10_Witness ==
  \E r \in Reqs :
    /\ Ok(r)
    /\ ScopeSupplied(r)
    /\ HintSupplied(r)
    /\ inferScopeFromQuestion(req[r].body.question).value
         \notin {"", req[r].body.scope.s}
    /\ inferDocHintFromQuestion(req[r].body.question).value
         \notin {"", req[r].body.document_hint.s}
    /\ res[r].body.scope = req[r].body.scope
    /\ res[r].body.document_hint = req[r].body.document_hint

(***************************************************************************)
(* Properties of the classifier                                            *)
(***************************************************************************)

\* the question the classifier was applied to, lower-cased
AskedText == toLowerCase(input.question.s)

\* the number of the words of list that occur in the question
Count(list) == Cardinality({kw \in list : Includes(AskedText, kw)})

DiagnosisRule ==
  \/ Count({"diagnos", "algorithm", "cxr", "x-ray", "radiograph", "screen", "xpert",
            "naat", "truenat", "lamp", "wrd", "wrds", "lpa", "smear", "ultra"}) >= 2
  \/ /\ Count({"diagnos", "algorithm", "cxr", "x-ray", "radiograph", "screen", "xpert",
               "naat", "truenat", "lamp", "wrd", "wrds", "lpa", "smear", "ultra"}) >= 1
     /\ Includes(AskedText, "module 3")

PediatricsRule ==
  Count({"child", "children", "paediatric", "pediatric", "adolescent", "infant",
         "neonate"}) >= 2

SafetyRule ==
  \/ Count({"adverse", "toxicity", "monitor", "safety", "ecg", "qt", "lft", "renal",
            "hepat", "side effect", "side effects"}) >= 2
  \/ /\ Count({"adverse", "toxicity", "monitor", "safety", "ecg", "qt", "lft", "renal",
               "hepat", "side effect", "side effects"}) >= 1
     /\ Includes(AskedText, "monitor")

ProgrammaticRule ==
  Count({"program", "programmatic", "supply chain", "implementation",
         "health system", "adherence support", "community"}) >= 2

TreatmentRule ==
  Count({"treatment", "regimen", "therapy", "dosing", "dose", "4-month", "6-month",
         "bpal", "bdq", "pretomanid", "linezolid", "dr-tb", "drug-resistant"}) >= 2

\* C11: inferScopeFromQuestion returns the scope of the first satisfied rule
\* in the order diagnosis, pediatrics, drug-safety, programmatic, treatment,
\* and no scope when none is satisfied; a question with "monitor" that
\* satisfies neither the diagnosis nor the pediatrics rule gives drug-safety.
C11_FirstScopeRuleWins ==
  (Applied("inferScopeFromQuestion") /\ IsString(input.question)) =>
    /\ ~output.result.threw
    /\ output.result.value =
         IF DiagnosisRule THEN "diagnosis"
         ELSE IF PediatricsRule THEN "pediatrics"
         ELSE IF SafetyRule THEN "drug-safety"
         ELSE IF ProgrammaticRule THEN "programmatic"
         ELSE IF TreatmentRule THEN "treatment"
         ELSE ""
    /\ (Includes(AskedText, "monitor") /\ ~DiagnosisRule /\ ~PediatricsRule)
         => output.result.value = "drug-safety"
    /\ (TreatmentRule /\ output.result.value # "treatment")
         => (DiagnosisRule \/ PediatricsRule \/ SafetyRule \/ ProgrammaticRule)

\* a question satisfies the treatment rule and the safety rule, and the
\* classifier returned drug-safety
C11_Witness ==
  /\ Applied("inferScopeFromQuestion")
  /\ IsString(input.question)
  /\ TreatmentRule
  /\ SafetyRule
  /\ Includes(AskedText, "monitor")
  /\ ~DiagnosisRule
  /\ output.result.value = "drug-safety"

\* rule k of the alias list has a trigger keyword and, when it has
\* requirements, a required keyword in the question
AliasRuleHolds(k) ==
  /\ \E kw \in DOC_HINT_ALIASES[k].keywords : Includes(AskedText, kw)
  /\ \/ DOC_HINT_ALIASES[k].requires = {}
     \/ \E kw \in DOC_HINT_ALIASES[k].requires : Includes(AskedText, kw)

\* C12: inferDocHintFromQuestion returns the target of the first alias rule,
\* in list order, that has a trigger keyword and a required keyword in the
\* question, and no hint when no rule has; a question with "module 3" and
\* "diagnostic algorithm" gives module3_diagnosis.
C12_FirstAliasRuleWins ==
  (Applied("inferDocHintFromQuestion") /\ IsString(input.question)) =>
    /\ ~output.result.threw
    /\ \A k \in DOMAIN DOC_HINT_ALIASES :
         (AliasRuleHolds(k) /\ \A j \in 1..(k - 1) : ~AliasRuleHolds(j))
           => output.result.value = DOC_HINT_ALIASES[k].target
    /\ (\A k \in DOMAIN DOC_HINT_ALIASES : ~AliasRuleHolds(k))
         => output.result.value = ""
    /\ (Includes(AskedText, "module 3") /\ Includes(AskedText, "diagnostic algorithm"))
         => output.result.value = "module3_diagnosis"

\* a question of mixed case has "module 3", "diagnostic algorithm" and
\* "consolidated", so that the first and the third rule hold, and the
\* classifier returned the target of the first
C12_Witness ==
  /\ Applied("inferDocHintFromQuestion")
  /\ IsString(input.question)
  /\ input.question.s # AskedText
  /\ Includes(AskedText, "module 3")
  /\ Includes(AskedText, "diagnostic algorithm")
  /\ Includes(AskedText, "consolidated")
  /\ output.result.value = "module3_diagnosis"

(***************************************************************************)
(* Properties of the scope filter                                          *)
(***************************************************************************)

\* C13: for a scope that is none of the five the scope filter recognizes,
\* filterIndicesByScope returns the indices it was given, whatever the
\* chunks, chunks with a scope tag included.
C13_UnknownScopePassesAll ==
  ( /\ Applied("filterIndicesByScope")
    /\ input.scope # ""
    /\ toLowerCase(input.scope) \notin
         {"diagnosis", "treatment", "drug-safety", "pediatrics", "programmatic"} )
  => output.result = input.indices

(***************************************************************************)
(* Properties of the corpus load                                           *)
(***************************************************************************)

\* C14: over the requests one process handles, loadRagStore goes to the
\* corpus files at most once, also when its first attempt failed or gave an
\* empty store.
C14_CorpusReadAtMostOnce == reads <= 1

\* C15: when the corpus has more or fewer embeddings than chunks, a request
\* with a valid question whose embedding call returned is answered 200.
C15_MismatchStillAnswers ==
  \A r \in Reqs :
    (Embedded(r) /\ Len(RAG_STORE.embeddings) # Len(RAG_STORE.chunks))
      => res[r].status = 200

(***************************************************************************)
(* Properties of the table functions                                       *)
(***************************************************************************)

\* the position of the header row the contract names: the first row whose
\* row_index is "1", else the first row
HeaderPosition(rawRows) ==
  LET IsOne(k) == Has(rawRows[k], "row_index") /\ Get(rawRows[k], "row_index") = "1"
  IN  IF \E k \in DOMAIN rawRows : IsOne(k)
      THEN CHOOSE k \in DOMAIN rawRows : IsOne(k) /\ \A j \in 1..(k - 1) : ~IsOne(j)
      ELSE 1

\* the generic columns of a row whose cell is not empty
LabelledColumns(row) ==
  {c \in {"ColumnA", "ColumnB"} : Has(row, c) /\ trim(Get(row, c)) # ""}

\* C16: normalizeTableRows takes as header row the row whose row_index is
\* "1", else the first row, and returns exactly one logical row for every
\* other raw row, in the order of the rows, keyed by the non-empty header
\* labels and carrying the row_index of the raw row, also for rows without
\* row_index and for rows that repeat the row_index of the header row; an
\* empty row list gives no header row and no logical rows.
C16_OneLogicalRowPerDataRow ==
  Applied("normalizeTableRows") =>
    LET rawRows == input.rawRows
        result == output.result
        h == HeaderPosition(rawRows)
        RawOf(k) == rawRows[IF k < h THEN k ELSE k + 1]
    IN  IF Len(rawRows) = 0
        THEN result.headerRow = <<>> /\ Len(result.logicalRows) = 0
        ELSE /\ result.headerRow = rawRows[h]
             /\ Len(result.logicalRows) = Len(rawRows) - 1
             /\ \A k \in DOMAIN result.logicalRows :
                  /\ Range(Keys(result.logicalRows[k]))
                       = {trim(Get(rawRows[h], c)) : c \in LabelledColumns(rawRows[h])}
                           \cup {"_row_index"}
                  /\ \A c \in LabelledColumns(rawRows[h]) :
                       Get(result.logicalRows[k], trim(Get(rawRows[h], c)))
                         = GetOr(RawOf(k), c)
                  /\ Get(result.logicalRows[k], "_row_index")
                       = GetOr(RawOf(k), "row_index")

\* the header labels of the table of the input, in lower case
InputHeaders == {toLowerCase(h) : h \in Range(getTableHeaders(InputLogicalRows))}

CaptionHas(needles) == IncludesAny(toLowerCase(input.chunk.caption), needles)

HeaderHas(needles) == \E h \in InputHeaders : IncludesAny(h, needles)

\* the cues of the subtypes, those of toxicity with the severity header
DosingCue ==
  \/ CaptionHas({"dose", "dosage", "mg/kg", "mg/ day", "mg per kg", "weight band",
                 "weight-band"})
  \/ HeaderHas({"kg"})

PediatricCue ==
  \/ CaptionHas({"child", "paediatric", "pediatric", "infant", "neonate"})
  \/ Includes(toLowerCase(input.chunk.section_path), "child")

DecisionCue ==
  \/ CaptionHas({"eligib", "criteria", "decision", "indication", "when to"})
  \/ IncludesInOrder(toLowerCase(input.chunk.caption), "if", "then")
  \/ HeaderHas({"criteria", "recommendation", "option", "action"})

RegimenCue ==
  HeaderHas({"regimen"}) /\ HeaderHas({"drug", "component", "medicine", "combination"})

TimelineCue ==
  \/ CaptionHas({"monitoring", "follow-up", "follow up", "timeline", "schedule"})
  \/ HeaderHas({"baseline", "month", "week", "visit", "timepoint"})

InteractionCue ==
  \/ CaptionHas({"interaction", "drug-drug", "drug drug", "qt", "contraindication"})
  \/ HeaderHas({"interaction", "effect", "recommendation"})

ToxicityCue ==
  \/ CaptionHas({"toxicity", "adverse event", "side effect", "hepatotox", "neuropathy",
                 "ae management"})
  \/ HeaderHas({"grade", "severity", "toxicity", "ctcae"})

\* C17: detectTableSubtype returns one of the eight subtypes, the first in
\* the order dosing or peds_dosing, decision, regimen, timeline,
\* interaction, toxicity whose cue the table satisfies: regimen only with
\* a regimen header and a drug or component header, toxicity for a table
\* with a grade or severity header and no earlier cue, and generic for a
\* table without a cue.
C17_FirstCueWins ==
  Applied("detectTableSubtype") =>
    /\ output.result \in TableSubtypes
    /\ output.result =
         CASE DosingCue /\ PediatricCue -> "peds_dosing"
           [] DosingCue /\ ~PediatricCue -> "dosing"
           [] ~DosingCue /\ DecisionCue -> "decision"
           [] ~DosingCue /\ ~DecisionCue /\ RegimenCue -> "regimen"
           [] ~DosingCue /\ ~DecisionCue /\ ~RegimenCue /\ TimelineCue -> "timeline"
           [] ~DosingCue /\ ~DecisionCue /\ ~RegimenCue /\ ~TimelineCue
                /\ InteractionCue -> "interaction"
           [] ~DosingCue /\ ~DecisionCue /\ ~RegimenCue /\ ~TimelineCue
                /\ ~InteractionCue /\ ToxicityCue -> "toxicity"
           [] OTHER -> "generic"

\* the text of a rendering, also where the renderer returned the object of
\* the generic renderer
RenderedText(result) == IF result.t = "object" THEN result.text.s ELSE result.s

RECURSIVE Lines(_)
\* text.split("\n")
Lines(text) ==
  IF \E i \in 1..Len(text) : CharAt(text, i) = "\n"
  THEN LET i == CHOOSE i \in 1..Len(text) :
                  CharAt(text, i) = "\n" /\ \A j \in 1..(i - 1) : CharAt(text, j) # "\n"
       IN  <<SubSeq(text, 1, i - 1)>> \o Lines(SubSeq(text, i + 1, Len(text)))
  ELSE <<text>>

\* the logical rows of the input with a cell that is not empty
RowsWithData ==
  {k \in DOMAIN InputLogicalRows :
     \E h \in Range(getTableHeaders(InputLogicalRows)) :
       nonEmpty(GetOr(InputLogicalRows[k], h))}

\* C18: for every subtype and every list of logical rows the rendering is
\* not empty and has, below its first line, a line for every logical row
\* with a non-empty cell: where the renderer of the subtype has no line of
\* its own for the rows, the rows are rendered by the generic renderer.
C18_EveryRowWithDataRendered ==
  Applied("render") =>
    /\ RenderedText(output.result) # ""
    /\ Len(Lines(RenderedText(output.result))) - 1 >= Cardinality(RowsWithData)

\* a text that is a string, not empty, and says that no rows were found
IsNotice(text) ==
  /\ text.t = "string"
  /\ text.s # ""
  /\ Includes(text.s, "No rows found")

\* C19: given zero logical rows, the renderer of every subtype, and
\* renderTable whatever subtype it detects, returns a text that is not
\* empty and explains that no rows were found.
C19_NoRowsNotice ==
  /\ Applied("render") /\ Len(InputLogicalRows) = 0 => IsNotice(output.result)
  /\ Applied("renderTable") /\ Len(InputLogicalRows) = 0
       => IsNotice(output.result.tableText)

\* renderTable was applied to a table of a header row only, captioned as a
\* monitoring schedule
C19_Witness ==
  /\ Applied("renderTable")
  /\ Len(input.rawRows) = 1
  /\ Len(InputLogicalRows) = 0
  /\ output.result.subtype = "timeline"
  /\ output.result.tableText = Str("Monitoring schedule. (No rows found.)")

\* the header row of the table of the input has the cells "Weight (kg)" and
\* "Dose (mg)", and neither caption nor section path has a cue for children
WeightAndDoseTable ==
  /\ {"Weight (kg)", "Dose (mg)"} \subseteq Range(getTableHeaders(InputLogicalRows))
  /\ ~PediatricCue

\* C20: a table with the header cells "Weight (kg)" and "Dose (mg)" and
\* without a cue for children is classified dosing, and its text has, for
\* every logical row with a weight band and a dose, a line in which both
\* the weight band and the dose of the row appear.
C20_WeightAndDoseOnOneLine ==
  Applied("renderTable") /\ WeightAndDoseTable =>
    /\ output.result.subtype = "dosing"
    /\ \A k \in DOMAIN InputLogicalRows :
         LET weight == Get(InputLogicalRows[k], "Weight (kg)")
             dose == Get(InputLogicalRows[k], "Dose (mg)")
         IN  nonEmpty(weight) /\ nonEmpty(dose) =>
               \E l \in Range(Lines(RenderedText(output.result.tableText))) :
                 Includes(l, weight) /\ Includes(l, dose)

(***************************************************************************)
(* Properties of the response body and of the channels                     *)
(***************************************************************************)

\* C21: in every 200 response the field top_k (in halves) is the number of
\* entries of results.
C21_TopKIsResultCount ==
  \A r \in Reqs : Ok(r) => res[r].body.top_k = 2 * Len(Results(r))

\* the entry of results is a table chunk
IsTableItem(item) ==
  item.content_type # Null /\ toLowerCase(item.content_type.s) = "table"

\* the table entries of the results of request r
TableResults(r) == {k \in DOMAIN Results(r) : IsTableItem(Results(r)[k])}

\* C22: whenever the candidates left by the filters hold a table chunk, the
\* results of the 200 response hold a table chunk, whatever the number and
\* the scores of the prose candidates.
C22_TablesNotStarved ==
  \A r \in Reqs :
    Ok(r) /\ TableCandidates(r) # {} => TableResults(r) # {}

\* the prose entries of the results of request r
ProseResults(r) == {k \in DOMAIN Results(r) : ~IsTableItem(Results(r)[k])}

\* the score of table candidate i of request r after the boost
BoostedOf(r, i) ==
  IF AdjacentToTopProse(r, i)
  THEN Max(CosOf(r, i),
           BoostFloor(CHOOSE m \in {CosOf(r, a) : a \in ProseCandidates(r)} :
                        \A a \in ProseCandidates(r) : CosOf(r, a) <= m))
  ELSE CosOf(r, i)

\* C23: a 200 response holds at most 10 prose chunks and at most 5 table
\* chunks, each among the highest-scored of its channel after the boost:
\* fewer than 10 prose candidates score above a prose result and fewer
\* than 5 table candidates score above a table result.
C23_ChannelLimits ==
  \A r \in Reqs :
    Ok(r) =>
      /\ Cardinality(ProseResults(r)) <= 10
      /\ Cardinality(TableResults(r)) <= 5
      /\ \A k \in ProseResults(r) :
           Cardinality({a \in ProseCandidates(r) :
                          CosOf(r, a) > Results(r)[k].score}) < 10
      /\ \A k \in TableResults(r) :
           Cardinality({i \in TableCandidates(r) :
                          BoostedOf(r, i) > Results(r)[k].score}) < 5

\* a response to a request with more than 5 table candidates and room for
\* all of them that holds 5 table chunks
C23_Witness ==
  \E r \in Reqs :
    /\ Ok(r)
    /\ Cardinality(TableCandidates(r)) > 5
    /\ res[r].body.top_k > 2 * Cardinality(TableCandidates(r))
    /\ Cardinality(TableResults(r)) = 5

\* the response of request r is the response of a handler that runs alone
\* on the request of r, from a process without a store, with the embedding
\* result and the table files r found
AsIfAlone(r) ==
  LET step == StartStep(req[r], NoStore, files)
  IN  IF step.done THEN res[r] = step.res
      ELSE IF qvec[r] = <<>> THEN res[r] = ErrorResponse(500, MSG_EMBED)
      ELSE \E failing \in SUBSET DOMAIN TableFiles :
             /\ res[r] = ResumeStep(step.locals, step.store, TablesSeen(failing),
                                    qvec[r])
             /\ broken[r] = FailedReads(res[r], failing)

\* C24: under every interleaving of the requests in flight, the response of
\* each request is the response it gets when it runs alone against the same
\* corpus, embedding result and table files.
C24_RequestsIndependent ==
  \A r \in DOMAIN pc : pc[r] = "done" => AsIfAlone(r)

\* two different requests answered 200 with different results, one of them
\* resumed while the other was suspended at its embedding call
C24_Witness ==
  \E r \in DOMAIN pc, o \in DOMAIN pc :
    /\ r # o
    /\ pc[r] = "done" /\ res[r].status = 200
    /\ pc[o] = "done" /\ res[o].status = 200
    /\ o \in inflight[r]
    /\ req[r] # req[o]
    /\ res[r].body.results # res[o].body.results

\* C25: the score of every result of a 200 response is the cosine
\* similarity of the query vector and the stored vector of the chunk of the
\* result, the dot product of the two normalized vectors over their common
\* prefix.
C25_ScoreIsCosine ==
  \A r \in Reqs :
    Ok(r) =>
      \A k \in DOMAIN Results(r) :
        \A i \in Range(candidates[r].indices) :
          ItemOf(Results(r)[k], RAG_STORE.chunks[i]) =>
            Results(r)[k].score = CosOf(r, i)

\* C26: once the store is loaded it holds the chunk list of the corpus files,
\* every chunk record as read, and the normalized vector of every embedding,
\* whatever requests were answered since: no request changes the store.
C26_StoreNeverChanges ==
  RAG_STORE.loaded =>
    /\ RAG_STORE.chunks = files.chunks
    /\ DOMAIN RAG_STORE.embeddings = DOMAIN files.rawEmbeddings
    /\ \A i \in DOMAIN files.rawEmbeddings :
         RAG_STORE.embeddings[i] = normalize(files.rawEmbeddings[i])

\* the store after two requests: one answered 200 with a table that was
\* boosted and enriched, one answered with an error
C26_Witness ==
  /\ RAG_STORE.loaded
  /\ \E r \in DOMAIN pc, o \in DOMAIN pc :
       /\ pc[r] = "done" /\ res[r].status = 200
       /\ \E k \in DOMAIN res[r].body.results, i \in Range(candidates[r].indices) :
            /\ ItemOf(res[r].body.results[k], RAG_STORE.chunks[i])
            /\ res[r].body.results[k].table_text # Null
            /\ res[r].body.results[k].score
                 > cosineSim(qvec[r], RAG_STORE.embeddings[i])
       /\ pc[o] = "done" /\ res[o].status = 500

\* the table of the input was rendered by a renderer of a subtype of its
\* own that passed on the rendering of the generic renderer
FellBackToGeneric ==
  /\ Applied("renderTable")
  /\ output.result.subtype
       \in {"dosing", "peds_dosing", "decision", "timeline", "interaction", "toxicity"}
  /\ Len(getTableHeaders(InputLogicalRows)) # 0
  /\ RenderedText(output.result.tableText)
       = renderGenericTable(input.chunk, InputLogicalRows)

\* C27: when the renderer of a subtype falls back to the generic renderer,
\* the text of the table is the string the generic renderer returns for the
\* chunk and its logical rows.
C27_FallbackTextIsGenericText ==
  FellBackToGeneric =>
    output.result.tableText = Str(renderGenericTable(input.chunk, InputLogicalRows))

\* the handler of r calls embedQuestion in this step
CallsEmbedding(r) == pc[r] # "embedding" /\ pc'[r] = "embedding"

\* the handler of r answers in this step with a rejection or with a failure
\* of the corpus
RejectsOrFailsOnCorpus(r) ==
  /\ pc[r] # "done"
  /\ pc'[r] = "done"
  /\ \/ res'[r].status \in {400, 405}
     \/ res'[r].status = 500 /\ res'[r].body.error \in {MSG_EMPTY, MSG_READ}

\* C28: the embedding service is called at most once per request and only
\* after the method check, the validation of the question and the load of a
\* corpus that is not empty have succeeded; a request rejected with 405 or
\* 400 or failing on the corpus has made no call, and a call that failed is
\* followed by the response, not by another call.
C28_EmbeddingCalledAtMostOnce ==
  [][\A r \in DOMAIN pc :
       /\ CallsEmbedding(r) =>
            /\ pc[r] = "idle"
            /\ req'[r].method = "POST"
            /\ ~QuestionInvalid(req'[r].body.question)
            /\ RAG_STORE'.loaded
            /\ Len(RAG_STORE'.chunks) > 0
            /\ Len(RAG_STORE'.embeddings) > 0
       /\ RejectsOrFailsOnCorpus(r) => pc[r] = "idle"
       /\ pc[r] = "embedding" => pc'[r] \in {"embedding", "done"}
       /\ pc[r] = "done" => pc'[r] \in {"done", "idle"}]_vars

C28_Witness ==
  \E r \in DOMAIN pc :
    /\ pc[r] = "done"
    /\ res[r].status = 500
    /\ res[r].body.error = MSG_EMBED
    /\ req[r].method = "POST"
    /\ RAG_STORE.loaded

\* the candidates of request r, prose and tables
AllCandidates(r) == Range(candidates[r].indices)

\* C29: no entry of results has a missing or empty chunk_id.
C29_NoResultWithoutChunkId ==
  \A r \in Reqs :
    Ok(r) => \A k \in DOMAIN Results(r) : Results(r)[k].chunk_id # ""

\* a 200 response with fewer results than top_k and than candidates, where a
\* candidate has no chunk_id and no two candidates share one
C29_Witness ==
  \E r \in Reqs :
    /\ Ok(r)
    /\ \E i \in AllCandidates(r) : RAG_STORE.chunks[i].chunk_id = ""
    /\ \A i, j \in AllCandidates(r) :
         RAG_STORE.chunks[i].chunk_id = RAG_STORE.chunks[j].chunk_id => i = j
    /\ 2 * Len(Results(r)) < res[r].body.top_k
    /\ Len(Results(r)) < Cardinality(AllCandidates(r))
    /\ Len(Results(r)) >= 1

\* the statuses the handler sets
Statuses == {200, 400, 405, 500}

\* the handler of r has returned or not, and its response was ended as often
EndedOnceWhenDone(r) ==
  /\ pc[r] = "done" => ended[r] = 1 /\ res[r].status \in Statuses
  /\ pc[r] # "done" => ended[r] = 0

====
